---- MODULE Spec2Model ----
(***************************************************************************)
(* The IR validator (valid/mod.rs, valid/expression.rs) as a state         *)
(* machine: a Validator owns scratch state, validate(module) walks the     *)
(* module phase by phase, item by item, and stops at the first error.      *)
(* Handles are the 0-based indices Handle::index() yields.                 *)
(* Two more machines follow the validator: the GLSL preprocessor           *)
(* (front/glsl/preprocessor.rs) and the command-line driver                *)
(* (examples/convert.rs).  Each has its own variables, initial states and  *)
(* next-state relation; while one machine runs the others are off.         *)
(***************************************************************************)
EXTENDS Integers, Sequences, FiniteSets, TLC

VARIABLES validator, module, family, phase, idx, mod_info, ep_map, result,
          examined, calls,
          args, env, dpc, parsed, written, exit_code,
          source, build, pc, lexer, comment, stripped, cursor, tokens,
          macros, line_offset, offset, outcome

valvars == <<validator, module, family, phase, idx, mod_info, ep_map, result,
             examined, calls>>
drivervars == <<args, env, dpc, parsed, written, exit_code>>
prevars == <<source, build, pc, lexer, comment, stripped, cursor, tokens,
             macros, line_offset, offset, outcome>>
vars == <<valvars, drivervars, prevars>>

\* The driver has not been started.
DriverOff ==
    /\ args = <<>>
    /\ env = "off"
    /\ dpc = "off"
    /\ parsed = <<>>
    /\ written = FALSE
    /\ exit_code = 0

\* preprocess has not been called.
PreprocessorOff ==
    /\ source = <<>>
    /\ build = "off"
    /\ pc = "off"
    /\ lexer = "off"
    /\ comment = 0
    /\ stripped = <<>>
    /\ cursor = 0
    /\ tokens = <<>>
    /\ macros = <<>>
    /\ line_offset = 0
    /\ offset = <<0, 0>>
    /\ outcome = "off"

(***************************************************************************)
(* Results: a value, an error value, or an abort (panic).                  *)
(***************************************************************************)
\* F applied to the value of v (v is evaluated once, before F).
Bind(v, F(_)) == CHOOSE y \in {F(x) : x \in {v}} : TRUE

Ok(v) == [r |-> "Ok", v |-> v]
Err(e) == [r |-> "Err", e |-> e]
Panic == [r |-> "Panic"]

(***************************************************************************)
(* Arena: get panics out of range, try_get is Some exactly in range.       *)
(***************************************************************************)
Has(arena, h) == h >= 0 /\ h < Len(arena)
At(arena, h) == arena[h + 1]
Handles(arena) == 0 .. (Len(arena) - 1)

(***************************************************************************)
(* u32 values are kept as two 16-bit limbs, so that !0 and the comparison  *)
(* index >= limit are those of the 32-bit type.                            *)
(***************************************************************************)
LimbBase == 2 ^ 16
U32(n) == [hi |-> n \div LimbBase, lo |-> n % LimbBase]
U32Max == [hi |-> LimbBase - 1, lo |-> LimbBase - 1]
U32Ge(a, b) == a.hi > b.hi \/ (a.hi = b.hi /\ a.lo >= b.lo)
U32Lt(a, b) == ~U32Ge(a, b)

(***************************************************************************)
(* ShaderStages                                                             *)
(***************************************************************************)
StagesAll == {"VERTEX", "FRAGMENT", "COMPUTE"}
StagesFragment == {"FRAGMENT"}

(***************************************************************************)
(* TypeInner                                                                *)
(***************************************************************************)
Scalar(kind, width) == [t |-> "Scalar", kind |-> kind, width |-> width]
Vector(size, kind, width) ==
    [t |-> "Vector", size |-> size, kind |-> kind, width |-> width]
Matrix(columns, rows, width) ==
    [t |-> "Matrix", columns |-> columns, rows |-> rows, width |-> width]
Pointer(base, class) == [t |-> "Pointer", base |-> base, class |-> class]
ValuePointer(size, kind, width, class) ==
    [t |-> "ValuePointer", size |-> size, kind |-> kind, width |-> width,
     class |-> class]
ArrayConstant(base, size_handle) ==
    [t |-> "Array", base |-> base, dynamic |-> FALSE, size |-> size_handle]
ArrayDynamic(base) ==
    [t |-> "Array", base |-> base, dynamic |-> TRUE, size |-> 0]
Struct(block, members) ==
    [t |-> "Struct", block |-> block, members |-> members]
Image(class, multi, arrayed) ==
    [t |-> "Image", class |-> class, multi |-> multi, arrayed |-> arrayed]
Sampler == [t |-> "Sampler"]
\* The type of an operand the resolution rules give no type to.
Unresolved == [t |-> "Unresolved"]

\* TypeResolution
TrHandle(h) == [res |-> "Handle", h |-> h]
TrValue(inner) == [res |-> "Value", inner |-> inner]

\* is_sized with every Array sized.
is_sized_any_array(inner) ==
    inner.t \in {"Scalar", "Vector", "Matrix", "Pointer", "ValuePointer",
                 "Struct", "Array"}


is_sized(inner) ==
    CASE inner.t \in {"Scalar", "Vector", "Matrix", "Pointer", "ValuePointer",
                      "Struct"} -> TRUE
      [] inner.t = "Array" -> ~inner.dynamic
      [] OTHER -> FALSE

\* TypeInner::scalar_kind: "None" when the type has no scalar kind.
scalar_kind(inner) ==
    CASE inner.t \in {"Scalar", "Vector"} -> inner.kind
      [] inner.t = "Matrix" -> "Float"
      [] OTHER -> "None"

(***************************************************************************)
(* Constants                                                                *)
(***************************************************************************)
ConstScalar(width, kind, value) ==
    [c |-> "Scalar", width |-> width, kind |-> kind, value |-> value]
ConstComposite(ty, components) ==
    [c |-> "Composite", ty |-> ty, components |-> components]

\* Constant::to_array_length: Some(length) when the constant represents one.
to_array_length(con) ==
    IF con.c = "Scalar" /\ con.kind \in {"Uint", "Sint"}
    THEN [some |-> TRUE, v |-> U32(con.value)]
    ELSE [some |-> FALSE, v |-> U32(0)]

check_width(kind, width) ==
    CASE kind = "Bool" -> width = 1
      [] OTHER -> width = 4

(***************************************************************************)
(* Expressions                                                              *)
(***************************************************************************)
Access(base, index) == [x |-> "Access", base |-> base, by |-> index]
AccessIndex(base, index) ==
    [x |-> "AccessIndex", base |-> base, index |-> index]
Constant(h) == [x |-> "Constant", h |-> h]
Compose(ty, components) ==
    [x |-> "Compose", ty |-> ty, components |-> components]
FunctionArgument(i) == [x |-> "FunctionArgument", index |-> i]
GlobalVariable(h) == [x |-> "GlobalVariable", h |-> h]
LocalVariable(h) == [x |-> "LocalVariable", h |-> h]
Load(pointer) == [x |-> "Load", pointer |-> pointer]
ImageSample(image, sampler, coordinate) ==
    [x |-> "ImageSample", image |-> image, sampler |-> sampler,
     coordinate |-> coordinate]
ImageLoad(image, coordinate) ==
    [x |-> "ImageLoad", image |-> image, coordinate |-> coordinate]
\* query is NumLayers, NumLevels, NumSamples, Size (level: None) or
\* SizeLevel (level: Some(level)).
ImageQuery(image, query, level) ==
    [x |-> "ImageQuery", image |-> image, query |-> query, level |-> level]
Unary(op, expr) == [x |-> "Unary", op |-> op, expr |-> expr]
Binary(op, left, right) ==
    [x |-> "Binary", op |-> op, left |-> left, right |-> right]
Select(condition, accept, reject) ==
    [x |-> "Select", condition |-> condition, accept |-> accept,
     reject |-> reject]
Derivative(axis, expr) == [x |-> "Derivative", axis |-> axis, expr |-> expr]
Relational(fun, argument) ==
    [x |-> "Relational", fun |-> fun, argument |-> argument]
Math(fun, arg) == [x |-> "Math", fun |-> fun, arg |-> arg]
As(expr, kind, convert) ==
    [x |-> "As", expr |-> expr, kind |-> kind, convert |-> convert]
Call(function) == [x |-> "Call", function |-> function]
ArrayLength(expr) == [x |-> "ArrayLength", expr |-> expr]

Range(s) == {s[i] : i \in 1 .. Len(s)}

\* The expression handles an expression holds as operands.
Operands(e) ==
    CASE e.x = "Access" -> {e.base, e.by}
      [] e.x = "AccessIndex" -> {e.base}
      [] e.x = "Compose" -> Range(e.components)
      [] e.x = "Load" -> {e.pointer}
      [] e.x = "ImageSample" -> {e.image, e.sampler, e.coordinate}
      [] e.x = "ImageLoad" -> {e.image, e.coordinate}
      [] e.x = "ImageQuery" ->
            {e.image} \cup (IF e.query = "SizeLevel" THEN {e.level} ELSE {})
      [] e.x = "Unary" -> {e.expr}
      [] e.x = "Binary" -> {e.left, e.right}
      [] e.x = "Select" -> {e.condition, e.accept, e.reject}
      [] e.x = "Derivative" -> {e.expr}
      [] e.x = "Relational" -> {e.argument}
      [] e.x = "Math" -> {e.arg}
      [] e.x = "As" -> {e.expr}
      [] e.x = "ArrayLength" -> {e.expr}
      [] OTHER -> {}

(***************************************************************************)
(* Type Resolver: the type of an expression from the types of the          *)
(* expressions processed before it.  It fails when an operand handle is    *)
(* out of bounds, when a composed type is absent from the arena, and when  *)
(* an image access has no image type; every other ill-typed operand gives  *)
(* Unresolved and is left to validate_expression.                          *)
(***************************************************************************)
InnerOf(tr, types) ==
    IF tr.res = "Handle"
    THEN (IF Has(types, tr.h) THEN At(types, tr.h) ELSE Unresolved)
    ELSE tr.inner

MemberStep(members, is_static, index) ==
    IF is_static /\ index.hi = 0 /\ index.lo < Len(members)
    THEN [some |-> TRUE, ty |-> members[index.lo + 1]]
    ELSE [some |-> FALSE, ty |-> 0]

\* Access, AccessIndex: one dimensionality step down from the base.
AccessStep(base_tr, types, is_static, index) ==
    LET b == InnerOf(base_tr, types) IN
    CASE b.t = "Vector" -> TrValue(Scalar(b.kind, b.width))
      [] b.t = "Matrix" -> TrValue(Vector(b.rows, "Float", b.width))
      [] b.t = "Array" -> TrHandle(b.base)
      [] b.t = "Struct" ->
            LET m == MemberStep(b.members, is_static, index) IN
            IF m.some THEN TrHandle(m.ty) ELSE TrValue(Unresolved)
      [] b.t = "Pointer" ->
            LET p == InnerOf(TrHandle(b.base), types) IN
            CASE p.t = "Vector" ->
                    TrValue(ValuePointer(0, p.kind, p.width, b.class))
              [] p.t = "Matrix" ->
                    TrValue(ValuePointer(p.rows, "Float", p.width, b.class))
              [] p.t = "Array" -> TrValue(Pointer(p.base, b.class))
              [] p.t = "Struct" ->
                    LET m == MemberStep(p.members, is_static, index) IN
                    IF m.some THEN TrValue(Pointer(m.ty, b.class))
                    ELSE TrValue(Unresolved)
              [] OTHER -> TrValue(Unresolved)
      [] OTHER -> TrValue(Unresolved)

IsComparison(op) ==
    op \in {"Equal", "NotEqual", "Less", "LessEqual", "Greater",
            "GreaterEqual"}

\* A boolean scalar or vector of the shape of inner.
BoolOfShape(inner) ==
    CASE inner.t = "Vector" -> Vector(inner.size, "Bool", 1)
      [] inner.t = "Scalar" -> Scalar("Bool", 1)
      [] OTHER -> Unresolved

\* Multiply: the wider of the two shapes under scalar-vector-matrix promotion.
MultiplyShape(l, r) ==
    CASE l.t = "Scalar" /\ r.t \in {"Scalar", "Vector", "Matrix"} -> r
      [] l.t \in {"Vector", "Matrix"} /\ r.t = "Scalar" -> l
      [] l.t = "Vector" /\ r.t = "Vector" -> l
      [] l.t = "Matrix" /\ r.t = "Vector" -> Vector(l.rows, "Float", l.width)
      [] l.t = "Vector" /\ r.t = "Matrix" ->
            Vector(r.columns, "Float", r.width)
      [] l.t = "Matrix" /\ r.t = "Matrix" ->
            Matrix(r.columns, l.rows, l.width)
      [] OTHER -> Unresolved

\* The image type behind an image operand (a global of class Handle is a
\* pointer to its image type).
ImageOf(inner, types) ==
    CASE inner.t = "Image" -> inner
      [] inner.t = "Pointer" -> InnerOf(TrHandle(inner.base), types)
      [] OTHER -> Unresolved

ImageResultType(image) ==
    IF image.class = "Depth" THEN Scalar("Float", 4)
    ELSE Vector(4, "Float", 4)

CastShape(inner, kind) ==
    CASE inner.t = "Scalar" -> Scalar(kind, inner.width)
      [] inner.t = "Vector" -> Vector(inner.size, kind, inner.width)
      [] OTHER -> inner

ResolveError(what) == [e |-> "Type", what |-> what]

\* tys: the TypeResolution of every expression slot of the function, those
\* not processed yet holding Unresolved.
ResolveExpression(e, tys, fun, m) ==
    LET ty(h) == InnerOf(tys[h + 1], m.types) IN
    IF \E h \in Operands(e) : ~Has(fun.expressions, h)
    THEN Err(ResolveError("OperandOutOfBounds"))
    ELSE
    CASE e.x = "Access" ->
            Ok(AccessStep(tys[e.base + 1], m.types, FALSE, U32(0)))
      [] e.x = "AccessIndex" ->
            Ok(AccessStep(tys[e.base + 1], m.types, TRUE, e.index))
      [] e.x = "Constant" ->
            IF ~Has(m.constants, e.h) THEN Ok(TrValue(Unresolved))
            ELSE LET con == At(m.constants, e.h) IN
                 IF con.c = "Scalar"
                 THEN Ok(TrValue(Scalar(con.kind, con.width)))
                 ELSE Ok(TrHandle(con.ty))
      [] e.x = "Compose" ->
            IF Has(m.types, e.ty) THEN Ok(TrHandle(e.ty))
            ELSE Err(ResolveError("TypeNotFound"))
      [] e.x = "FunctionArgument" ->
            IF e.index < Len(fun.arguments)
            THEN Ok(TrHandle(fun.arguments[e.index + 1]))
            ELSE Ok(TrValue(Unresolved))
      [] e.x = "GlobalVariable" ->
            IF Has(m.global_variables, e.h)
            THEN LET var == At(m.global_variables, e.h) IN
                 Ok(TrValue(Pointer(var.ty, var.class)))
            ELSE Ok(TrValue(Unresolved))
      [] e.x = "LocalVariable" ->
            IF Has(fun.local_variables, e.h)
            THEN Ok(TrValue(Pointer(At(fun.local_variables, e.h).ty,
                                    "Function")))
            ELSE Ok(TrValue(Unresolved))
      [] e.x = "Load" ->
            LET p == ty(e.pointer) IN
            CASE p.t = "Pointer" -> Ok(TrHandle(p.base))
              [] p.t = "ValuePointer" ->
                    Ok(TrValue(IF p.size = 0 THEN Scalar(p.kind, p.width)
                               ELSE Vector(p.size, p.kind, p.width)))
              [] OTHER -> Ok(TrValue(Unresolved))
      [] e.x \in {"ImageSample", "ImageLoad"} ->
            LET image == ImageOf(ty(e.image), m.types) IN
            IF image.t = "Image" THEN Ok(TrValue(ImageResultType(image)))
            ELSE Err(ResolveError("ImageTypeNotFound"))
      [] e.x = "ImageQuery" ->
            IF e.query \in {"Size", "SizeLevel"}
            THEN Ok(TrValue(Vector(2, "Sint", 4)))
            ELSE Ok(TrValue(Scalar("Sint", 4)))
      [] e.x = "Unary" -> Ok(tys[e.expr + 1])
      [] e.x = "Binary" ->
            IF IsComparison(e.op) THEN Ok(TrValue(BoolOfShape(ty(e.left))))
            ELSE IF e.op = "Multiply"
            THEN Ok(TrValue(MultiplyShape(ty(e.left), ty(e.right))))
            ELSE Ok(tys[e.left + 1])
      [] e.x = "Select" -> Ok(tys[e.accept + 1])
      [] e.x = "Derivative" -> Ok(tys[e.expr + 1])
      [] e.x = "Relational" -> Ok(TrValue(Scalar("Bool", 1)))
      [] e.x = "Math" -> Ok(tys[e.arg + 1])
      [] e.x = "As" -> Ok(TrValue(CastShape(ty(e.expr), e.kind)))
      [] e.x = "Call" ->
            IF Has(m.functions, e.function)
               /\ At(m.functions, e.function).result >= 0
            THEN Ok(TrHandle(At(m.functions, e.function).result))
            ELSE Ok(TrValue(Unresolved))
      [] e.x = "ArrayLength" -> Ok(TrValue(Scalar("Uint", 4)))

(***************************************************************************)
(* Analyzer: the FunctionInfo of a function, or the first resolution       *)
(* error with the handle of its expression.                                *)
(***************************************************************************)
ExpressionFailure(handle, error) ==
    [e |-> "Expression", handle |-> handle, error |-> error]

RECURSIVE AnalyzeFrom(_, _, _, _)
AnalyzeFrom(k, tys, fun, m) ==
    IF k >= Len(fun.expressions)
    THEN Ok([expressions |-> tys, available_stages |-> StagesAll])
    ELSE Bind(ResolveExpression(At(fun.expressions, k), tys, fun, m),
              LAMBDA r :
                IF r.r = "Ok"
                THEN Bind([tys EXCEPT ![k + 1] = r.v],
                          LAMBDA next : AnalyzeFrom(k + 1, next, fun, m))
                ELSE Err(ExpressionFailure(k, r.e)))

process_function(fun, m) ==
    AnalyzeFrom(0, [i \in 1 .. Len(fun.expressions) |-> TrValue(Unresolved)],
                fun, m)

(***************************************************************************)
(* ExpressionTypeResolver::resolve                                          *)
(***************************************************************************)
ForwardDependency(h) == [e |-> "ForwardDependency", h |-> h]

resolve_any(root, types, info, handle) ==
    LET tr == info.expressions[handle + 1] IN
    IF tr.res = "Handle" /\ ~Has(types, tr.h) THEN Panic
    ELSE Ok(InnerOf(tr, types))

\* resolve with the comparison handle <= root.
resolve_inclusive(root, types, info, handle) ==
    IF handle <= root
    THEN resolve_any(root, types, info, handle)
    ELSE Err(ForwardDependency(handle))

resolve(root, types, info, handle) ==
    IF handle < root
    THEN resolve_any(root, types, info, handle)
    ELSE Err(ForwardDependency(handle))

(***************************************************************************)
(* Validator::validate_expression, one operator per match arm.             *)
(***************************************************************************)
U32ToNat(u) == u.hi * LimbBase + u.lo

ve_Access(root, e, m, info) ==
    LET b == resolve(root, m.types, info, e.base) IN
    IF b.r # "Ok" THEN b
    ELSE IF b.v.t \notin {"Vector", "Matrix", "Array", "Pointer"}
    THEN Err([e |-> "InvalidBaseType", h |-> e.base])
    ELSE LET i == resolve(root, m.types, info, e.by) IN
         IF i.r # "Ok" THEN i
         ELSE IF ~(i.v.t = "Scalar" /\ i.v.kind \in {"Sint", "Uint"})
         THEN Err([e |-> "InvalidIndexType", h |-> e.by])
         ELSE Ok(StagesAll)

\* The limit of AccessIndex: Ok(limit), an error, or the panic of unwrap().
AccessIndexLimit(base, inner, m) ==
    CASE inner.t = "Vector" -> Ok(U32(inner.size))
      [] inner.t = "Matrix" -> Ok(U32(inner.columns))
      [] inner.t = "Array" /\ ~inner.dynamic ->
            IF ~Has(m.constants, inner.size) THEN Panic
            ELSE LET len == to_array_length(At(m.constants, inner.size)) IN
                 IF len.some THEN Ok(len.v) ELSE Panic
      [] inner.t = "Array" /\ inner.dynamic -> Ok(U32Max)
      [] inner.t = "Pointer" -> Ok(U32Max)
      [] inner.t = "Struct" -> Ok(U32(Len(inner.members)))
      [] OTHER -> Err([e |-> "InvalidBaseType", h |-> base])

IndexOutOfBounds(base, index) ==
    [e |-> "IndexOutOfBounds", h |-> base, index |-> index]

\* The AccessIndex arm with the comparison index > limit.
ve_AccessIndex_gt(root, e, m, info) ==
    LET b == resolve(root, m.types, info, e.base) IN
    IF b.r # "Ok" THEN b
    ELSE LET limit == AccessIndexLimit(e.base, b.v, m) IN
         IF limit.r # "Ok" THEN limit
         ELSE IF U32Ge(e.index, limit.v) /\ e.index # limit.v
         THEN Err(IndexOutOfBounds(e.base, e.index))
         ELSE Ok(StagesAll)

ve_AccessIndex(root, e, m, info) ==
    LET b == resolve(root, m.types, info, e.base) IN
    IF b.r # "Ok" THEN b
    ELSE LET limit == AccessIndexLimit(e.base, b.v, m) IN
         IF limit.r # "Ok" THEN limit
         ELSE IF U32Ge(e.index, limit.v)
         THEN Err(IndexOutOfBounds(e.base, e.index))
         ELSE Ok(StagesAll)

\* The Constant arm without the try_get.
ve_Constant_unchecked(e, m) == Ok(StagesAll)

ve_Constant(e, m) ==
    IF Has(m.constants, e.h) THEN Ok(StagesAll)
    ELSE Err([e |-> "ConstantDoesntExist", h |-> e.h])

InvalidComponentType(index, comp) ==
    [e |-> "InvalidComponentType", position |-> index, h |-> comp]
\* InvalidComposeCount with its two fields exchanged.
InvalidComposeCount_swapped(given, expected) ==
    [e |-> "InvalidComposeCount", given |-> expected, expected |-> given]
InvalidComposeCount(given, expected) ==
    [e |-> "InvalidComposeCount", given |-> given, expected |-> expected]

\* The loop over a vector's components: Ok(total) or the first failure.
RECURSIVE ComposeVectorTotal(_, _, _, _, _, _, _)
ComposeVectorTotal(i, total, components, v, root, m, info) ==
    IF i > Len(components) THEN Ok(total)
    ELSE LET c == resolve(root, m.types, info, components[i]) IN
         IF c.r # "Ok" THEN c
         ELSE IF c.v.t = "Scalar" /\ c.v.kind = v.kind /\ c.v.width = v.width
         THEN ComposeVectorTotal(i + 1, total + 1, components, v, root, m,
                                 info)
         ELSE IF c.v.t = "Vector" /\ c.v.kind = v.kind /\ c.v.width = v.width
         THEN ComposeVectorTotal(i + 1, total + c.v.size, components, v, root,
                                 m, info)
         ELSE Err(InvalidComponentType(i - 1, components[i]))

\* The loop over components that must have the types expected[1..n]:
\* Ok, or the first failure.
RECURSIVE ComposeComponents(_, _, _, _, _, _, _)
ComposeComponents(i, n, components, expected, root, m, info) ==
    IF i > n THEN Ok(StagesAll)
    ELSE LET c == resolve(root, m.types, info, components[i]) IN
         IF c.r # "Ok" THEN c
         ELSE IF c.v # expected[i]
         THEN Err(InvalidComponentType(i - 1, components[i]))
         ELSE ComposeComponents(i + 1, n, components, expected, root, m, info)

Min(a, b) == IF a < b THEN a ELSE b

ve_Compose(root, e, m, info) ==
    IF ~Has(m.types, e.ty)
    THEN Err([e |-> "ComposeTypeDoesntExist", h |-> e.ty])
    ELSE
    LET t == At(m.types, e.ty)
        n == Len(e.components)
    IN
    CASE t.t = "Vector" ->
            LET total == ComposeVectorTotal(1, 0, e.components, t, root, m,
                                            info) IN
            IF total.r # "Ok" THEN total
            ELSE IF t.size # total.v
            THEN Err(InvalidComposeCount(total.v, t.size))
            ELSE Ok(StagesAll)
      [] t.t = "Matrix" ->
            IF t.columns # n THEN Err(InvalidComposeCount(n, t.columns))
            ELSE ComposeComponents(1, n, e.components,
                    [i \in 1 .. n |-> Vector(t.rows, "Float", t.width)],
                    root, m, info)
      [] t.t = "Array" /\ ~t.dynamic ->
            IF ~Has(m.constants, t.size) THEN Panic
            ELSE LET len == to_array_length(At(m.constants, t.size)) IN
            IF ~len.some THEN Panic
            ELSE IF U32ToNat(len.v) # n
            THEN Err(InvalidComposeCount(n, U32ToNat(len.v)))
            ELSE IF ~Has(m.types, t.base) THEN Panic
            ELSE ComposeComponents(1, n, e.components,
                    [i \in 1 .. n |-> At(m.types, t.base)], root, m, info)
      [] t.t = "Struct" ->
            LET k == Min(Len(t.members), n) IN
            IF \E i \in 1 .. k : ~Has(m.types, t.members[i]) THEN Panic
            ELSE
            LET each == ComposeComponents(1, k, e.components,
                          [i \in 1 .. k |-> At(m.types, t.members[i])],
                          root, m, info) IN
            IF each.r # "Ok" THEN each
            ELSE IF Len(t.members) # n
            THEN Err(InvalidComposeCount(n, Len(t.members)))
            ELSE Ok(StagesAll)
      [] OTHER -> Err([e |-> "InvalidComposeType", h |-> e.ty])

ve_FunctionArgument(e, function) ==
    IF e.index >= Len(function.arguments)
    THEN Err([e |-> "FunctionArgumentDoesntExist", h |-> e.index])
    ELSE Ok(StagesAll)

ve_GlobalVariable(e, m) ==
    IF Has(m.global_variables, e.h) THEN Ok(StagesAll)
    ELSE Err([e |-> "GlobalVarDoesntExist", h |-> e.h])

ve_LocalVariable(e, function) ==
    IF Has(function.local_variables, e.h) THEN Ok(StagesAll)
    ELSE Err([e |-> "LocalVarDoesntExist", h |-> e.h])

\* ve_Load asking the pointee for SIZED only.
ve_Load_sized_only(self, root, e, m, info) ==
    LET p == resolve(root, m.types, info, e.pointer) IN
    IF p.r # "Ok" THEN p
    ELSE IF p.v.t = "Pointer"
    THEN (IF ~Has(self.types, p.v.base) THEN Panic
          ELSE IF "SIZED" \in At(self.types, p.v.base).flags
          THEN Ok(StagesAll)
          ELSE Err([e |-> "InvalidPointerType", h |-> e.pointer]))
    ELSE IF p.v.t = "ValuePointer" THEN Ok(StagesAll)
    ELSE Err([e |-> "InvalidPointerType", h |-> e.pointer])


ve_Load(self, root, e, m, info) ==
    LET p == resolve(root, m.types, info, e.pointer) IN
    IF p.r # "Ok" THEN p
    ELSE IF p.v.t = "Pointer"
    THEN (IF ~Has(self.types, p.v.base) THEN Panic
          ELSE IF {"SIZED", "DATA"} \subseteq At(self.types, p.v.base).flags
          THEN Ok(StagesAll)
          ELSE Err([e |-> "InvalidPointerType", h |-> e.pointer]))
    ELSE IF p.v.t = "ValuePointer" THEN Ok(StagesAll)
    ELSE Err([e |-> "InvalidPointerType", h |-> e.pointer])

\* ve_ImageQuery with depth images unable to query levels.
ve_ImageQuery_depth_flat(e, function, m) ==
    IF ~Has(function.expressions, e.image) THEN Panic
    ELSE LET image == At(function.expressions, e.image) IN
    IF image.x # "GlobalVariable" THEN Err([e |-> "ExpectedGlobalVariable"])
    ELSE IF ~Has(m.global_variables, image.h) THEN Panic
    ELSE LET var == At(m.global_variables, image.h) IN
    IF ~Has(m.types, var.ty) THEN Panic
    ELSE LET t == At(m.types, var.ty) IN
    IF t.t # "Image" THEN Err([e |-> "ExpectedImageType", h |-> var.ty])
    ELSE
    LET can_level == t.class = "Sampled" /\ ~t.multi
        good == CASE e.query = "NumLayers" -> t.arrayed
                  [] e.query \in {"SizeLevel", "NumLevels"} -> can_level
                  [] e.query \in {"Size", "NumSamples"} -> ~can_level
    IN
    IF ~good THEN Err([e |-> "InvalidImageClass", class |-> t.class])
    ELSE Ok(StagesAll)


ve_ImageQuery(e, function, m) ==
    IF ~Has(function.expressions, e.image) THEN Panic
    ELSE LET image == At(function.expressions, e.image) IN
    IF image.x # "GlobalVariable" THEN Err([e |-> "ExpectedGlobalVariable"])
    ELSE IF ~Has(m.global_variables, image.h) THEN Panic
    ELSE LET var == At(m.global_variables, image.h) IN
    IF ~Has(m.types, var.ty) THEN Panic
    ELSE LET t == At(m.types, var.ty) IN
    IF t.t # "Image" THEN Err([e |-> "ExpectedImageType", h |-> var.ty])
    ELSE
    LET can_level == CASE t.class = "Sampled" -> ~t.multi
                       [] t.class = "Storage" -> FALSE
                       [] t.class = "Depth" -> TRUE
        good == CASE e.query = "NumLayers" -> t.arrayed
                  [] e.query \in {"SizeLevel", "NumLevels"} -> can_level
                  [] e.query \in {"Size", "NumSamples"} -> ~can_level
    IN
    IF ~good THEN Err([e |-> "InvalidImageClass", class |-> t.class])
    ELSE Ok(StagesAll)

ve_Unary(root, e, m, info) ==
    LET inner == resolve(root, m.types, info, e.expr) IN
    IF inner.r # "Ok" THEN inner
    ELSE LET kind == scalar_kind(inner.v) IN
    IF \/ kind = "Sint"
       \/ kind = "Bool"
       \/ (e.op = "Negate" /\ kind = "Float")
       \/ (e.op = "Not" /\ kind = "Uint")
    THEN Ok(StagesAll)
    ELSE Err([e |-> "InvalidUnaryOperandType", op |-> e.op, h |-> e.expr])

IsNumeric(kind) == kind \in {"Uint", "Sint", "Float"}
WidthOf(inner) ==
    IF inner.t \in {"Scalar", "Vector", "Matrix"} THEN inner.width ELSE 0

\* multiply_good without the comparison of the widths.
multiply_good_any_width(l, r) ==
    LET kind_match == IsNumeric(scalar_kind(l))
        types_match ==
            CASE l.t = "Scalar" /\ r.t = "Scalar" -> l.kind = r.kind
              [] l.t = "Vector" /\ r.t = "Scalar" -> l.kind = r.kind
              [] l.t = "Scalar" /\ r.t = "Vector" -> l.kind = r.kind
              [] l.t = "Scalar" /\ r.t = "Matrix" -> l.kind = "Float"
              [] l.t = "Matrix" /\ r.t = "Scalar" -> r.kind = "Float"
              [] l.t = "Vector" /\ r.t = "Vector" ->
                    l.kind = r.kind /\ l.size = r.size
              [] l.t = "Matrix" /\ r.t = "Vector" ->
                    r.kind = "Float" /\ l.columns = r.size
              [] l.t = "Vector" /\ r.t = "Matrix" ->
                    l.kind = "Float" /\ l.size = r.rows
              [] l.t = "Matrix" /\ r.t = "Matrix" -> l.columns = r.rows
              [] OTHER -> FALSE
    IN kind_match /\ types_match


multiply_good(l, r) ==
    LET kind_match == IsNumeric(scalar_kind(l))
        types_match ==
            CASE l.t = "Scalar" /\ r.t = "Scalar" -> l.kind = r.kind
              [] l.t = "Vector" /\ r.t = "Scalar" -> l.kind = r.kind
              [] l.t = "Scalar" /\ r.t = "Vector" -> l.kind = r.kind
              [] l.t = "Scalar" /\ r.t = "Matrix" -> l.kind = "Float"
              [] l.t = "Matrix" /\ r.t = "Scalar" -> r.kind = "Float"
              [] l.t = "Vector" /\ r.t = "Vector" ->
                    l.kind = r.kind /\ l.size = r.size
              [] l.t = "Matrix" /\ r.t = "Vector" ->
                    r.kind = "Float" /\ l.columns = r.size
              [] l.t = "Vector" /\ r.t = "Matrix" ->
                    l.kind = "Float" /\ l.size = r.rows
              [] l.t = "Matrix" /\ r.t = "Matrix" -> l.columns = r.rows
              [] OTHER -> FALSE
    IN kind_match /\ types_match /\ WidthOf(l) = WidthOf(r)

\* shift_good with a shift amount of either integer kind.
shift_good_any_integer(l, r) ==
    LET base_ok == l.t \in {"Scalar", "Vector"}
        base_size == IF l.t = "Vector" THEN l.size ELSE 0
        base_kind == IF base_ok THEN l.kind ELSE "Bool"
        shift_ok == r.t \in {"Scalar", "Vector"}
                    /\ r.kind \in {"Sint", "Uint"}
        shift_size == IF r.t = "Vector" THEN r.size ELSE 0
    IN base_kind \in {"Sint", "Uint"}
       /\ base_ok /\ shift_ok /\ base_size = shift_size


shift_good(l, r) ==
    LET base_ok == l.t \in {"Scalar", "Vector"}
        base_size == IF l.t = "Vector" THEN l.size ELSE 0
        base_kind == IF base_ok THEN l.kind ELSE "Bool"
        shift_ok == r.t \in {"Scalar", "Vector"} /\ r.kind = "Uint"
        shift_size == IF r.t = "Vector" THEN r.size ELSE 0
    IN base_kind \in {"Sint", "Uint"}
       /\ base_ok /\ shift_ok /\ base_size = shift_size

\* binary_good with the shapes of Multiply for the other arithmetic
\* operators.
binary_good_promoting(op, l, r) ==
    CASE op \in {"Add", "Subtract", "Divide", "Modulo", "Multiply"} ->
            multiply_good(l, r)
      [] op \in {"Equal", "NotEqual"} -> is_sized(l) /\ l = r
      [] op \in {"Less", "LessEqual", "Greater", "GreaterEqual"} ->
            l.t \in {"Scalar", "Vector"} /\ IsNumeric(l.kind) /\ l = r
      [] op \in {"LogicalAnd", "LogicalOr"} ->
            l.t \in {"Scalar", "Vector"} /\ l.kind = "Bool" /\ l = r
      [] op \in {"And", "ExclusiveOr", "InclusiveOr"} ->
            l.t \in {"Scalar", "Vector"} /\ l.kind \in {"Sint", "Uint"}
            /\ l = r
      [] op \in {"ShiftLeft", "ShiftRight"} -> shift_good(l, r)

\* binary_good with the ordering comparisons taking Bool operands.
binary_good_bool_order(op, l, r) ==
    CASE op \in {"Add", "Subtract", "Divide", "Modulo"} ->
            l.t \in {"Scalar", "Vector"} /\ IsNumeric(l.kind) /\ l = r
      [] op = "Multiply" -> multiply_good(l, r)
      [] op \in {"Equal", "NotEqual"} -> is_sized(l) /\ l = r
      [] op \in {"Less", "LessEqual", "Greater", "GreaterEqual"} ->
            l.t \in {"Scalar", "Vector"} /\ l = r
      [] op \in {"LogicalAnd", "LogicalOr"} ->
            l.t \in {"Scalar", "Vector"} /\ l.kind = "Bool" /\ l = r
      [] op \in {"And", "ExclusiveOr", "InclusiveOr"} ->
            l.t \in {"Scalar", "Vector"} /\ l.kind \in {"Sint", "Uint"}
            /\ l = r
      [] op \in {"ShiftLeft", "ShiftRight"} -> shift_good(l, r)


binary_good(op, l, r) ==
    CASE op \in {"Add", "Subtract", "Divide", "Modulo"} ->
            l.t \in {"Scalar", "Vector"} /\ IsNumeric(l.kind) /\ l = r
      [] op = "Multiply" -> multiply_good(l, r)
      [] op \in {"Equal", "NotEqual"} -> is_sized(l) /\ l = r
      [] op \in {"Less", "LessEqual", "Greater", "GreaterEqual"} ->
            l.t \in {"Scalar", "Vector"} /\ IsNumeric(l.kind) /\ l = r
      [] op \in {"LogicalAnd", "LogicalOr"} ->
            l.t \in {"Scalar", "Vector"} /\ l.kind = "Bool" /\ l = r
      [] op \in {"And", "ExclusiveOr", "InclusiveOr"} ->
            l.t \in {"Scalar", "Vector"} /\ l.kind \in {"Sint", "Uint"}
            /\ l = r
      [] op \in {"ShiftLeft", "ShiftRight"} -> shift_good(l, r)

InvalidBinaryOperandTypes(op, left, right) ==
    [e |-> "InvalidBinaryOperandTypes", op |-> op, left |-> left,
     right |-> right]

ve_Binary(root, e, m, info) ==
    LET left_inner == resolve(root, m.types, info, e.left) IN
    IF left_inner.r # "Ok" THEN left_inner
    ELSE LET right_inner == resolve(root, m.types, info, e.right) IN
    IF right_inner.r # "Ok" THEN right_inner
    ELSE IF ~binary_good(e.op, left_inner.v, right_inner.v)
    THEN Err(InvalidBinaryOperandTypes(e.op, e.left, e.right))
    ELSE Ok(StagesAll)

\* ve_Select with a vector condition of any size.
ve_Select_any_size(root, e, m, info) ==
    LET accept_inner == resolve(root, m.types, info, e.accept) IN
    IF accept_inner.r # "Ok" THEN accept_inner
    ELSE LET reject_inner == resolve(root, m.types, info, e.reject) IN
    IF reject_inner.r # "Ok" THEN reject_inner
    ELSE LET c == resolve(root, m.types, info, e.condition) IN
    IF c.r # "Ok" THEN c
    ELSE
    LET condition_good ==
            CASE c.v.t = "Scalar" /\ c.v.kind = "Bool" ->
                    is_sized(accept_inner.v)
              [] c.v.t = "Vector" /\ c.v.kind = "Bool" ->
                    accept_inner.v.t = "Vector"
              [] OTHER -> FALSE
    IN
    IF ~condition_good \/ accept_inner.v # reject_inner.v
    THEN Err([e |-> "InvalidSelectTypes"])
    ELSE Ok(StagesAll)


ve_Select(root, e, m, info) ==
    LET accept_inner == resolve(root, m.types, info, e.accept) IN
    IF accept_inner.r # "Ok" THEN accept_inner
    ELSE LET reject_inner == resolve(root, m.types, info, e.reject) IN
    IF reject_inner.r # "Ok" THEN reject_inner
    ELSE LET c == resolve(root, m.types, info, e.condition) IN
    IF c.r # "Ok" THEN c
    ELSE
    LET condition_good ==
            CASE c.v.t = "Scalar" /\ c.v.kind = "Bool" ->
                    is_sized(accept_inner.v)
              [] c.v.t = "Vector" /\ c.v.kind = "Bool" ->
                    accept_inner.v.t = "Vector"
                    /\ accept_inner.v.size = c.v.size
              [] OTHER -> FALSE
    IN
    IF ~condition_good \/ accept_inner.v # reject_inner.v
    THEN Err([e |-> "InvalidSelectTypes"])
    ELSE Ok(StagesAll)

ve_Relational(root, e, m, info) ==
    LET a == resolve(root, m.types, info, e.argument) IN
    IF a.r # "Ok" THEN a
    ELSE IF e.fun \in {"All", "Any"}
    THEN (IF a.v.t = "Vector" /\ a.v.kind = "Bool" THEN Ok(StagesAll)
          ELSE Err([e |-> "InvalidBooleanVector", h |-> e.argument]))
    ELSE (IF a.v.t \in {"Scalar", "Vector"} /\ a.v.kind = "Float"
          THEN Ok(StagesAll)
          ELSE Err([e |-> "InvalidFloatArgument", h |-> e.argument]))

\* The Call arm without the callee's stages.
ve_Call_all_stages(e, other_infos) ==
    IF ~Has(other_infos, e.function) THEN Panic
    ELSE Ok(StagesAll)

ve_Call(e, other_infos) ==
    IF ~Has(other_infos, e.function) THEN Panic
    ELSE Ok(At(other_infos, e.function).available_stages)

ve_ArrayLength(root, e, m, info) ==
    LET a == resolve(root, m.types, info, e.expr) IN
    IF a.r # "Ok" THEN a
    ELSE IF a.v.t = "Array" THEN Ok(StagesAll)
    ELSE Err([e |-> "InvalidArrayType", h |-> e.expr])

validate_expression(self, root, e, function, m, info, other_infos) ==
    CASE e.x = "Access" -> ve_Access(root, e, m, info)
      [] e.x = "AccessIndex" -> ve_AccessIndex(root, e, m, info)
      [] e.x = "Constant" -> ve_Constant(e, m)
      [] e.x = "Compose" -> ve_Compose(root, e, m, info)
      [] e.x = "FunctionArgument" -> ve_FunctionArgument(e, function)
      [] e.x = "GlobalVariable" -> ve_GlobalVariable(e, m)
      [] e.x = "LocalVariable" -> ve_LocalVariable(e, function)
      [] e.x = "Load" -> ve_Load(self, root, e, m, info)
      [] e.x = "ImageSample" -> Ok(StagesAll)
      [] e.x = "ImageLoad" -> Ok(StagesAll)
      [] e.x = "ImageQuery" -> ve_ImageQuery(e, function, m)
      [] e.x = "Unary" -> ve_Unary(root, e, m, info)
      [] e.x = "Binary" -> ve_Binary(root, e, m, info)
      [] e.x = "Select" -> ve_Select(root, e, m, info)
      [] e.x = "Derivative" -> Ok(StagesFragment)
      [] e.x = "Relational" -> ve_Relational(root, e, m, info)
      [] e.x = "Math" -> Ok(StagesAll)
      [] e.x = "As" -> Ok(StagesAll)
      [] e.x = "Call" -> ve_Call(e, other_infos)
      [] e.x = "ArrayLength" -> ve_ArrayLength(root, e, m, info)

(***************************************************************************)
(* Validator: construction and the per-module reset of its scratch state.  *)
(***************************************************************************)
TypeInfo(flags) == [flags |-> flags]

ValidatorNew(flags) ==
    [flags |-> flags, types |-> <<>>, location_mask |-> {},
     bind_group_masks |-> <<>>]

reset_types(self, size) ==
    [self EXCEPT !.types = [i \in 1 .. size |-> TypeInfo({})],
                 !.location_mask = {},
                 !.bind_group_masks = <<>>]

(***************************************************************************)
(* Validator::validate_constant                                             *)
(***************************************************************************)
RECURSIVE FirstFrom_later(_, _, _)
\* find with the comparison handle < comp.
FirstFrom_later(i, components, handle) ==
    IF i > Len(components) THEN [some |-> FALSE, v |-> 0]
    ELSE IF handle < components[i] THEN [some |-> TRUE, v |-> components[i]]
    ELSE FirstFrom_later(i + 1, components, handle)

RECURSIVE FirstFrom(_, _, _)
\* components.iter().find(|comp| handle <= comp), from position i on.
FirstFrom(i, components, handle) ==
    IF i > Len(components) THEN [some |-> FALSE, v |-> 0]
    ELSE IF handle <= components[i] THEN [some |-> TRUE, v |-> components[i]]
    ELSE FirstFrom(i + 1, components, handle)

validate_constant(handle, constants, types) ==
    LET con == At(constants, handle) IN
    IF con.c = "Scalar"
    THEN (IF ~check_width(con.kind, con.width)
          THEN Err([e |-> "InvalidType"])
          ELSE Ok(TRUE))
    ELSE IF ~Has(types, con.ty) THEN Panic
    ELSE
    LET t == At(types, con.ty)
        comp == FirstFrom(1, con.components, handle)
    IN
    IF t.t = "Array" /\ t.dynamic THEN Err([e |-> "InvalidType"])
    ELSE IF t.t = "Array" /\ ~t.dynamic /\ handle <= t.size
    THEN Err([e |-> "UnresolvedSize", h |-> t.size])
    ELSE IF comp.some THEN Err([e |-> "UnresolvedComponent", h |-> comp.v])
    ELSE Ok(TRUE)

(***************************************************************************)
(* validate_type: the TypeInfo of a type from those of the types before it *)
(***************************************************************************)
FlagsOf(self, h) == At(self.types, h).flags

validate_type(self, ty, handle) ==
    CASE ty.t \in {"Scalar", "Vector", "Matrix"} ->
            Ok(TypeInfo({"DATA", "SIZED", "INTERFACE", "HOST_SHARED"}))
      [] ty.t \in {"Pointer", "ValuePointer"} -> Ok(TypeInfo({"SIZED"}))
      [] ty.t = "Array" ->
            IF ~Has(self.types, ty.base) THEN Panic
            ELSE Ok(TypeInfo({"DATA"}
                     \cup (IF is_sized(ty) THEN {"SIZED"} ELSE {})
                     \cup (FlagsOf(self, ty.base) \cap {"HOST_SHARED"})))
      [] ty.t = "Struct" ->
            IF \E i \in 1 .. Len(ty.members) : ~Has(self.types, ty.members[i])
            THEN Panic
            ELSE
            LET shared == \A i \in 1 .. Len(ty.members) :
                            "HOST_SHARED" \in FlagsOf(self, ty.members[i])
            IN
            IF ty.block /\ ~shared
            THEN Err([e |-> "InvalidBlockType", h |-> handle])
            ELSE Ok(TypeInfo({"DATA", "SIZED"}
                     \cup (IF shared THEN {"HOST_SHARED"} ELSE {})
                     \cup (IF ty.block THEN {"BLOCK"} ELSE {})))
      [] OTHER -> Ok(TypeInfo({}))

(***************************************************************************)
(* validate_global_var: class against type flags, unique bindings.         *)
(* Yields the result and the validator with the binding recorded.          *)
(***************************************************************************)
NoBinding == [b |-> "None", group |-> 0, index |-> 0]
Location(index) == [b |-> "Location", group |-> 0, index |-> index]
Resource(group, index) == [b |-> "Resource", group |-> group, index |-> index]

GlobalVar(class, ty, binding) ==
    [class |-> class, ty |-> ty, binding |-> binding]

ClassAllows(class, flags, inner) ==
    CASE class \in {"Uniform", "Storage"} ->
            {"HOST_SHARED", "BLOCK"} \subseteq flags
      [] class = "Handle" -> inner.t \in {"Image", "Sampler"}
      [] class \in {"Private", "Function", "WorkGroup"} ->
            {"SIZED", "DATA"} \subseteq flags
      [] class \in {"Input", "Output"} -> "INTERFACE" \in flags

GroupMask(masks, group) ==
    IF group < Len(masks) THEN masks[group + 1] ELSE {}

SetGroupMask(masks, group, mask) ==
    [i \in 1 .. (IF group < Len(masks) THEN Len(masks) ELSE group + 1) |->
        IF i = group + 1 THEN mask
        ELSE IF i <= Len(masks) THEN masks[i] ELSE {}]

validate_global_var(self, var, types) ==
    IF ~Has(types, var.ty) \/ ~Has(self.types, var.ty)
    THEN [res |-> Panic, self |-> self]
    ELSE IF ~ClassAllows(var.class, FlagsOf(self, var.ty), At(types, var.ty))
    THEN [res |-> Err([e |-> "InvalidType"]), self |-> self]
    ELSE
    CASE var.binding.b = "Location" ->
            LET bit == <<var.class, var.binding.index>> IN
            IF bit \in self.location_mask
            THEN [res |-> Err([e |-> "BindingCollision"]), self |-> self]
            ELSE [res |-> Ok(TRUE),
                  self |-> [self EXCEPT !.location_mask = @ \cup {bit}]]
      [] var.binding.b = "Resource" ->
            LET mask == GroupMask(self.bind_group_masks, var.binding.group) IN
            IF var.binding.index \in mask
            THEN [res |-> Err([e |-> "BindingCollision"]), self |-> self]
            ELSE [res |-> Ok(TRUE),
                  self |-> [self EXCEPT !.bind_group_masks =
                              SetGroupMask(@, var.binding.group,
                                           mask \cup {var.binding.index})]]
      [] OTHER -> [res |-> Ok(TRUE), self |-> self]

(***************************************************************************)
(* validate_function: run the Analyzer, then validate every expression in  *)
(* arena order, narrowing the available stages.                            *)
(***************************************************************************)
Function(arguments, result_ty, local_variables, expressions) ==
    [arguments |-> arguments, result |-> result_ty,
     local_variables |-> local_variables, expressions |-> expressions]

RECURSIVE ValidateExpressionsFrom(_, _, _, _, _, _)
ValidateExpressionsFrom(k, self, fun, m, info, other_infos) ==
    IF k >= Len(fun.expressions) THEN Ok(info)
    ELSE Bind(validate_expression(self, k, At(fun.expressions, k), fun, m,
                                  info, other_infos),
              LAMBDA r :
                IF r.r = "Panic" THEN Panic
                ELSE IF r.r = "Err" THEN Err(ExpressionFailure(k, r.e))
                ELSE Bind([info EXCEPT !.available_stages = @ \cap r.v],
                          LAMBDA next :
                            ValidateExpressionsFrom(k + 1, self, fun, m, next,
                                                    other_infos)))

validate_function(self, fun, m, info_so_far) ==
    Bind(process_function(fun, m),
         LAMBDA info :
           IF info.r # "Ok" THEN info
           ELSE ValidateExpressionsFrom(0, self, fun, m, info.v,
                                        info_so_far.functions))

(***************************************************************************)
(* validate_entry_point                                                     *)
(***************************************************************************)
EntryPoint(name, stage, workgroup_size, function) ==
    [name |-> name, stage |-> stage, workgroup_size |-> workgroup_size,
     function |-> function]

StageBit(stage) ==
    CASE stage = "Vertex" -> "VERTEX"
      [] stage = "Fragment" -> "FRAGMENT"
      [] stage = "Compute" -> "COMPUTE"

validate_entry_point(self, ep, m, info_so_far) ==
    IF ep.stage = "Compute" /\ \E i \in 1 .. 3 : ep.workgroup_size[i] = 0
    THEN Err([e |-> "InvalidWorkgroupSize"])
    ELSE Bind(validate_function(self, ep.function, m, info_so_far),
              LAMBDA info :
                IF info.r = "Panic" THEN Panic
                ELSE IF info.r = "Err"
                THEN Err([e |-> "Function", error |-> info.e])
                ELSE IF StageBit(ep.stage) \notin info.v.available_stages
                THEN Err([e |-> "ForbiddenStageOperations"])
                ELSE info)

(***************************************************************************)
(* Validator::validate as steps: st is the state of one call, the          *)
(* validator's scratch included.                                            *)
(***************************************************************************)
NoResult == [r |-> "None"]
EmptyInfo == [functions |-> <<>>, entry_points |-> <<>>]

PhaseLen(ph, m) ==
    CASE ph = "constants" -> Len(m.constants)
      [] ph = "types" -> Len(m.types)
      [] ph = "globals" -> Len(m.global_variables)
      [] ph = "functions" -> Len(m.functions)
      [] ph = "entry_points" -> Len(m.entry_points)
      [] OTHER -> 0

\* The loops with the globals before the types.
NextPhase_globals_first(ph) ==
    CASE ph = "constants" -> "globals"
      [] ph = "globals" -> "types"
      [] ph = "types" -> "functions"
      [] ph = "functions" -> "entry_points"
      [] OTHER -> "done"

NextPhase(ph) ==
    CASE ph = "constants" -> "types"
      [] ph = "types" -> "globals"
      [] ph = "globals" -> "functions"
      [] ph = "functions" -> "entry_points"
      [] OTHER -> "done"

RECURSIVE FirstItemFrom(_, _)
\* The first phase from ph on that has an item, or done.
FirstItemFrom(ph, m) ==
    IF ph = "done" \/ PhaseLen(ph, m) > 0 THEN ph
    ELSE FirstItemFrom(NextPhase(ph), m)

Enter(st, ph) ==
    [st EXCEPT !.phase = ph, !.idx = 0,
               !.result = IF ph = "done" THEN Ok(st.mod_info) ELSE @]

\* The loop goes on to its next item, or the next loop starts, or Ok.
After(st, m) ==
    IF st.idx + 1 < PhaseLen(st.phase, m) THEN [st EXCEPT !.idx = @ + 1]
    ELSE Enter(st, FirstItemFrom(NextPhase(st.phase), m))

Fail(st, error) == [st EXCEPT !.phase = "done", !.result = Err(error)]
Abort(st) == [st EXCEPT !.phase = "done", !.result = Panic]
Examine(st) == [st EXCEPT !.examined = Append(@, <<st.phase, st.idx>>)]

\* The start of validate when only the type infos are reset.
validate_begin_types_only(self, m) ==
    Enter([validator |->
             [self EXCEPT !.types = reset_types(self, Len(m.types)).types],
           phase |-> "idle", idx |-> 0, mod_info |-> EmptyInfo,
           ep_map |-> {}, result |-> NoResult, examined |-> <<>>],
          FirstItemFrom("constants", m))

validate_begin(self, m) ==
    Enter([validator |-> reset_types(self, Len(m.types)),
           phase |-> "idle", idx |-> 0, mod_info |-> EmptyInfo,
           ep_map |-> {}, result |-> NoResult, examined |-> <<>>],
          FirstItemFrom("constants", m))

constant_step(st, m) ==
    LET r == validate_constant(st.idx, m.constants, m.types) IN
    CASE r.r = "Ok" -> After(Examine(st), m)
      [] r.r = "Err" ->
            Fail(Examine(st),
                 [v |-> "Constant", handle |-> st.idx, error |-> r.e])
      [] OTHER -> Abort(Examine(st))

type_step(st, m) ==
    LET r == validate_type(st.validator, At(m.types, st.idx), st.idx) IN
    CASE r.r = "Ok" ->
            IF ~Has(st.validator.types, st.idx) THEN Abort(Examine(st))
            ELSE After([Examine(st) EXCEPT
                          !.validator.types[st.idx + 1] = r.v], m)
      [] r.r = "Err" ->
            Fail(Examine(st), [v |-> "Type", handle |-> st.idx, error |-> r.e])
      [] OTHER -> Abort(Examine(st))

global_step(st, m) ==
    LET g == validate_global_var(st.validator,
                                 At(m.global_variables, st.idx), m.types)
        st1 == [Examine(st) EXCEPT !.validator = g.self]
    IN
    CASE g.res.r = "Ok" -> After(st1, m)
      [] g.res.r = "Err" ->
            Fail(st1, [v |-> "GlobalVariable", handle |-> st.idx,
                       error |-> g.res.e])
      [] OTHER -> Abort(st1)

\* The functions loop putting each info before the earlier ones.
function_step_prepend(st, m) ==
    Bind(validate_function(st.validator, At(m.functions, st.idx), m,
                           st.mod_info),
         LAMBDA r :
           CASE r.r = "Ok" ->
                   After([Examine(st) EXCEPT
                            !.mod_info.functions = <<r.v>> \o @], m)
             [] r.r = "Err" ->
                   Fail(Examine(st),
                        [v |-> "Function", handle |-> st.idx, error |-> r.e])
             [] OTHER -> Abort(Examine(st)))


function_step(st, m) ==
    Bind(validate_function(st.validator, At(m.functions, st.idx), m,
                           st.mod_info),
         LAMBDA r :
           CASE r.r = "Ok" ->
                   After([Examine(st) EXCEPT
                            !.mod_info.functions = Append(@, r.v)], m)
             [] r.r = "Err" ->
                   Fail(Examine(st),
                        [v |-> "Function", handle |-> st.idx, error |-> r.e])
             [] OTHER -> Abort(Examine(st)))

\* The entry-point loop with a map keyed by name alone.
entry_point_step_by_name(st, m) ==
    LET ep == At(m.entry_points, st.idx)
        key == <<ep.stage, ep.name>>
        st1 == [st EXCEPT !.ep_map = @ \cup {key}]
    IN
    IF \E k \in st.ep_map : k[2] = ep.name
    THEN Fail(Examine(st),
              [v |-> "EntryPoint", stage |-> ep.stage, name |-> ep.name,
               error |-> [e |-> "Conflict"]])
    ELSE
    Bind(validate_entry_point(st.validator, ep, m, st.mod_info),
         LAMBDA r :
           CASE r.r = "Ok" ->
                   After([Examine(st1) EXCEPT
                            !.mod_info.entry_points = Append(@, r.v)], m)
             [] r.r = "Err" ->
                   Fail(Examine(st1),
                        [v |-> "EntryPoint", stage |-> ep.stage,
                         name |-> ep.name, error |-> r.e])
             [] OTHER -> Abort(Examine(st1)))

entry_point_step(st, m) ==
    LET ep == At(m.entry_points, st.idx)
        key == <<ep.stage, ep.name>>
        st1 == [st EXCEPT !.ep_map = @ \cup {key}]
    IN
    IF key \in st.ep_map
    THEN Fail(Examine(st),
              [v |-> "EntryPoint", stage |-> ep.stage, name |-> ep.name,
               error |-> [e |-> "Conflict"]])
    ELSE
    Bind(validate_entry_point(st.validator, ep, m, st.mod_info),
         LAMBDA r :
           CASE r.r = "Ok" ->
                   After([Examine(st1) EXCEPT
                            !.mod_info.entry_points = Append(@, r.v)], m)
             [] r.r = "Err" ->
                   Fail(Examine(st1),
                        [v |-> "EntryPoint", stage |-> ep.stage,
                         name |-> ep.name, error |-> r.e])
             [] OTHER -> Abort(Examine(st1)))

step(st, m) ==
    CASE st.phase = "constants" -> constant_step(st, m)
      [] st.phase = "types" -> type_step(st, m)
      [] st.phase = "globals" -> global_step(st, m)
      [] st.phase = "functions" -> function_step(st, m)
      [] st.phase = "entry_points" -> entry_point_step(st, m)

RECURSIVE run(_, _)
run(st, m) ==
    IF st.phase = "done" THEN st
    ELSE Bind(step(st, m), LAMBDA next : run(next, m))

\* validate(module) as one call.
validate(self, m) ==
    Bind(validate_begin(self, m), LAMBDA st : run(st, m))

(***************************************************************************)
(* Input modules.  Function bodies are empty blocks; names are kept only   *)
(* for entry points.                                                        *)
(***************************************************************************)
Module(types, constants, global_variables, functions, entry_points) ==
    [types |-> types, constants |-> constants,
     global_variables |-> global_variables, functions |-> functions,
     entry_points |-> entry_points]

MaxCalls == 2
MaxIndex == 4
MaxComponents == 3

NoType == 0 - 1

\* f32, i32, u32, bool, vec2<f32>, vec3<f32>, vec4<f32>, mat2x3<f32>,
\* array<f32, 2>, array<f32>, struct { f32, i32 }, texture_2d<f32>, sampler
BaseTypes ==
    << Scalar("Float", 4), Scalar("Sint", 4), Scalar("Uint", 4),
       Scalar("Bool", 1), Vector(2, "Float", 4), Vector(3, "Float", 4),
       Vector(4, "Float", 4), Matrix(2, 3, 4), ArrayConstant(0, 0),
       ArrayDynamic(0), Struct(FALSE, <<0, 1>>),
       Image("Sampled", FALSE, FALSE), Sampler >>

BaseConstants ==
    << ConstScalar(4, "Uint", 2), ConstScalar(4, "Float", 1),
       ConstScalar(4, "Sint", 3), ConstComposite(5, <<1, 1, 1>>) >>

BaseGlobals ==
    << GlobalVar("Private", 5, NoBinding),
       GlobalVar("Handle", 11, Resource(0, 0)),
       GlobalVar("Handle", 12, Resource(0, 1)) >>

\* A function that needs the fragment stage.
DerivativeFunction ==
    Function(<<0>>, 0, <<>>, <<FunctionArgument(0), Derivative("X", 0)>>)

EmptyFunction == Function(<<>>, NoType, <<>>, <<>>)

\* Leaves of every base type: handle i < 11 has type i; 11 is a pointer to
\* vec3<f32>, 12 a pointer to the image, 13 an f32 constant.
Prelude ==
    [i \in 1 .. 11 |-> FunctionArgument(i - 1)]
    \o <<GlobalVariable(0), GlobalVariable(1), Constant(1)>>

\* The expressions after the one under test.
Trailer == <<GlobalVariable(1), Constant(2)>>

Root == Len(Prelude)

TestFunction(e) ==
    Function([i \in 1 .. 11 |-> i - 1], NoType, <<[ty |-> 1]>>,
             Prelude \o <<e>> \o Trailer)

TestModule(e) ==
    Module(BaseTypes, BaseConstants, BaseGlobals,
           <<DerivativeFunction, TestFunction(e)>>,
           <<EntryPoint("main", "Fragment", <<0, 0, 0>>, EmptyFunction)>>)

SeqsUpTo(S, n) == UNION {[1 .. k -> S] : k \in 0 .. n}

Indices == {U32(n) : n \in 0 .. MaxIndex} \cup {U32Max}

AccessExprs ==
    {AccessIndex(b, i) : b \in 0 .. (Root + 1), i \in Indices}
    \cup {Access(b, i) : b \in 0 .. (Root + 1), i \in {0, 1, 2, Root}}

ComposeExprs ==
    {Compose(ty, cs) : ty \in {0, 4, 6, 7, 8, 10},
                       cs \in SeqsUpTo({0, 1, 5}, MaxComponents)}
    \cup {Compose(ty, cs) : ty \in {0, 4, 6, 7, 8, 10},
                            cs \in {<<Root>>, <<0, Root>>}}

\* In-bounds, self, later and out-of-bounds operand handles.
RefHandles == {0, 12, Root, Root + 1, Root + 3}

RefExprs ==
    {Binary(op, l, r) : op \in {"Add", "Equal"}, l \in RefHandles,
                        r \in RefHandles}
    \cup {Unary("Negate", h) : h \in RefHandles}
    \cup {Load(h) : h \in RefHandles \cup {11}}
    \cup {Select(3, a, r) : a \in RefHandles, r \in RefHandles}
    \cup {Select(c, 0, 0) : c \in RefHandles}
    \cup {Access(b, 1) : b \in RefHandles \cup {5}}
    \cup {Access(5, i) : i \in RefHandles}
    \cup {AccessIndex(b, U32(0)) : b \in RefHandles \cup {5}}
    \cup {Relational("IsNan", h) : h \in RefHandles}
    \cup {ArrayLength(h) : h \in RefHandles \cup {9}}
    \cup {Derivative("X", h) : h \in RefHandles}
    \cup {Math("Abs", h) : h \in RefHandles}
    \cup {As(h, "Sint", TRUE) : h \in RefHandles}
    \cup {ImageSample(i, 12, c) : i \in RefHandles, c \in RefHandles}
    \cup {ImageSample(12, s, 4) : s \in RefHandles}
    \cup {ImageLoad(i, c) : i \in RefHandles, c \in RefHandles}
    \cup {ImageQuery(i, q, 0) : i \in RefHandles,
                                q \in {"NumLevels", "NumSamples"}}
    \cup {ImageQuery(12, "SizeLevel", l) : l \in RefHandles}
    \cup {Compose(ty, <<a, b>>) : ty \in {4, Len(BaseTypes)},
                                  a \in RefHandles, b \in {0, Root + 1}}
    \cup {Constant(h) : h \in 0 .. Len(BaseConstants)}
    \cup {GlobalVariable(h) : h \in 0 .. Len(BaseGlobals)}
    \cup {LocalVariable(h) : h \in 0 .. 1}
    \cup {FunctionArgument(i) : i \in {0, 10, 11}}
    \cup {Call(f) : f \in 0 .. 2}

\* Constants arenas with in-bounds, self, later and out-of-bounds handles.
RefConstants ==
    {BaseConstants,
     <<ConstScalar(4, "Uint", 2), ConstComposite(Len(BaseTypes), <<0>>)>>,
     <<ConstScalar(4, "Float", 1), ConstComposite(5, <<0, 0, 4>>)>>,
     <<ConstScalar(4, "Float", 1), ConstComposite(5, <<0, 1, 0>>)>>,
     <<ConstComposite(5, <<1, 1, 1>>), ConstScalar(4, "Float", 1)>>}

ConstantsModule(constants) ==
    Module(BaseTypes, constants, BaseGlobals, <<DerivativeFunction>>,
           <<EntryPoint("main", "Fragment", <<0, 0, 0>>, EmptyFunction)>>)

(***************************************************************************)
(* Modules for validate_constant: one composite constant before or after   *)
(* the array-size constant (handle 2), with earlier, own and later          *)
(* component handles.                                                       *)
(***************************************************************************)
MaxConstComponents == 2

\* f32, i32, vec2<f32>, array<f32, 2>, struct { f32, i32 },
\* struct { array<f32, 2> }, array<f32>
ConstTypes ==
    << Scalar("Float", 4), Scalar("Sint", 4), Vector(2, "Float", 4),
       ArrayConstant(0, 2), Struct(FALSE, <<0, 1>>), Struct(FALSE, <<3>>),
       ArrayDynamic(0) >>

ConstComposites ==
    {ConstComposite(ty, cs) : ty \in {2, 3, 4, 5, 6},
                              cs \in SeqsUpTo({0, 1, 3}, MaxConstComponents)}

ConstFirsts ==
    {ConstScalar(4, "Float", 1), ConstScalar(4, "Sint", 3),
     ConstScalar(3, "Float", 1)}

ConstArenas ==
    {<<a, x, ConstScalar(4, "Uint", 2), ConstScalar(4, "Float", 1)>> :
        a \in ConstFirsts, x \in ConstComposites}
    \cup {<<a, ConstScalar(4, "Float", 1), ConstScalar(4, "Uint", 2), x>> :
        a \in ConstFirsts, x \in ConstComposites}

ConstArenaModule(constants) ==
    Module(ConstTypes, constants, <<GlobalVar("Private", 2, NoBinding)>>,
           <<DerivativeFunction>>,
           <<EntryPoint("main", "Fragment", <<0, 0, 0>>, EmptyFunction)>>)

(***************************************************************************)
(* Modules for the operand rules of Unary, Binary and Select: a function   *)
(* with a leaf of every kind of type and one expression over the leaves.   *)
(***************************************************************************)
\* f32, i32, u32, bool, vec2<f32>, vec2<i32>, vec2<u32>, vec3<u32>,
\* vec2<bool>, vec3<bool>, mat2x3<f32>, array<f32>,
\* struct { f32, array<f32> }, texture_2d<f32>, sampler,
\* array<texture_2d<f32>, 2>
OpsTypes ==
    << Scalar("Float", 4), Scalar("Sint", 4), Scalar("Uint", 4),
       Scalar("Bool", 1), Vector(2, "Float", 4), Vector(2, "Sint", 4),
       Vector(2, "Uint", 4), Vector(3, "Uint", 4), Vector(2, "Bool", 1),
       Vector(3, "Bool", 1), Matrix(2, 3, 4), ArrayDynamic(0),
       Struct(FALSE, <<0, 11>>), Image("Sampled", FALSE, FALSE), Sampler,
       ArrayConstant(13, 0) >>

\* Handle i < 16 is an argument of type i; 16 is a pointer to vec2<f32>,
\* 17 a value pointer to its first component.
OpsPrelude ==
    [i \in 1 .. Len(OpsTypes) |-> FunctionArgument(i - 1)]
    \o <<GlobalVariable(0), AccessIndex(Len(OpsTypes), U32(0))>>

OpsRoot == Len(OpsPrelude)

OpsLeaves == 0 .. OpsRoot - 1

OpsFunction(e) ==
    Function([i \in 1 .. Len(OpsTypes) |-> i - 1], NoType, <<>>,
             OpsPrelude \o <<e>>)

OpsModule(e) ==
    Module(OpsTypes, <<ConstScalar(4, "Uint", 2)>>,
           <<GlobalVar("Private", 4, NoBinding)>>,
           <<DerivativeFunction, OpsFunction(e)>>,
           <<EntryPoint("main", "Fragment", <<0, 0, 0>>, EmptyFunction)>>)

ArithExprs ==
    {Binary(op, l, r) :
        op \in {"Add", "Subtract", "Divide", "Modulo", "Multiply"},
        l \in {0, 1, 2, 3, 4, 5, 6, 7, 8, 10, 12, 13, 16},
        r \in {0, 1, 2, 3, 4, 5, 6, 7, 10, 12}}
    \cup {Unary(op, h) : op \in {"Negate", "Not"}, h \in OpsLeaves}

CompareOps ==
    {"Equal", "NotEqual", "Less", "LessEqual", "Greater", "GreaterEqual"}

CompareExprs ==
    {Binary(op, l, l) : op \in CompareOps, l \in OpsLeaves}
    \cup {Binary(op, l, r) : op \in CompareOps, l \in OpsLeaves,
                             r \in {0, 2, 4, 6, 7}}

SelectExprs ==
    {Select(c, a, a) : c \in {0, 2, 3, 6, 8, 9}, a \in OpsLeaves}
    \cup {Select(c, a, r) : c \in {0, 2, 3, 6, 8, 9}, a \in OpsLeaves,
                            r \in {0, 4, 5, 7}}
    \cup {Binary(op, l, r) : op \in {"ShiftLeft", "ShiftRight"},
                             l \in {0, 1, 2, 3, 4, 5, 6, 7, 8, 10, 12, 17},
                             r \in {0, 1, 2, 3, 5, 6, 7, 10}}

(***************************************************************************)
(* Modules for the Multiply rule: the function of the operand-rule modules *)
(* over scalars, vectors and matrices of several shapes and two widths.    *)
(***************************************************************************)
\* f32, i32, u32, bool, vec2<f32>, vec3<f32>, vec2<i32>, vec2<u32>,
\* vec2<bool>, f64, vec2<f64>, mat2x3<f32>, mat3x2<f32>, mat2x3<f64>,
\* struct { f32, i32 }, mat2x2<f32>
MulTypes ==
    << Scalar("Float", 4), Scalar("Sint", 4), Scalar("Uint", 4),
       Scalar("Bool", 1), Vector(2, "Float", 4), Vector(3, "Float", 4),
       Vector(2, "Sint", 4), Vector(2, "Uint", 4), Vector(2, "Bool", 1),
       Scalar("Float", 8), Vector(2, "Float", 8), Matrix(2, 3, 4),
       Matrix(3, 2, 4), Matrix(2, 3, 8), Struct(FALSE, <<0, 1>>),
       Matrix(2, 2, 4) >>

MulModule(e) ==
    Module(MulTypes, <<ConstScalar(4, "Uint", 2)>>,
           <<GlobalVar("Private", 4, NoBinding)>>,
           <<DerivativeFunction, OpsFunction(e)>>,
           <<EntryPoint("main", "Fragment", <<0, 0, 0>>, EmptyFunction)>>)

MulExprs ==
    {Binary("Multiply", l, r) : l \in OpsLeaves, r \in 0 .. Len(MulTypes) - 1}

(***************************************************************************)
(* Modules for the rules of Load and ImageQuery: global variables of every *)
(* image class, local variables of every kind of type, and one expression  *)
(* over them.                                                               *)
(***************************************************************************)
\* f32, vec2<f32>, sampled, multisampled, sampled arrayed, storage,
\* storage arrayed, depth and depth arrayed images, sampler, array<f32>,
\* struct { f32, array<f32> }, ptr<function, f32>, array<f32, 2>
MemTypes ==
    << Scalar("Float", 4), Vector(2, "Float", 4),
       Image("Sampled", FALSE, FALSE), Image("Sampled", TRUE, FALSE),
       Image("Sampled", FALSE, TRUE), Image("Storage", FALSE, FALSE),
       Image("Storage", FALSE, TRUE), Image("Depth", FALSE, FALSE),
       Image("Depth", FALSE, TRUE), Sampler, ArrayDynamic(0),
       Struct(FALSE, <<0, 10>>), Pointer(0, "Function"),
       ArrayConstant(0, 0) >>

\* Global i < 8 has type i + 2; global 8 is a private vec2<f32>.
MemGlobals ==
    [i \in 1 .. 8 |-> GlobalVar("Handle", i + 1, Resource(0, i - 1))]
    \o <<GlobalVar("Private", 1, NoBinding)>>

\* The types of the local variables.
MemLocals == <<0, 1, 2, 9, 10, 11, 12, 13>>

\* Handles 0..8 are the globals, 9..16 the locals, 17 an image argument,
\* 18 an f32 argument, 19 a value pointer into the private vector, 20 a
\* pointer to the dynamically sized member of the local struct.
MemPrelude ==
    [i \in 1 .. Len(MemGlobals) |-> GlobalVariable(i - 1)]
    \o [i \in 1 .. Len(MemLocals) |-> LocalVariable(i - 1)]
    \o <<FunctionArgument(0), FunctionArgument(1), AccessIndex(8, U32(0)),
         AccessIndex(14, U32(1))>>

MemRoot == Len(MemPrelude)

MemLeaves == 0 .. MemRoot - 1

MemFunction(e) ==
    Function(<<2, 0>>, NoType, [i \in 1 .. Len(MemLocals) |-> [ty |-> MemLocals[i]]],
             MemPrelude \o <<e>>)

MemModule(e) ==
    Module(MemTypes, <<ConstScalar(4, "Uint", 2)>>, MemGlobals,
           <<DerivativeFunction, MemFunction(e)>>,
           <<EntryPoint("main", "Fragment", <<0, 0, 0>>, EmptyFunction)>>)

ImageQueries == {"NumLayers", "NumLevels", "NumSamples", "Size", "SizeLevel"}

MemExprs ==
    {ImageQuery(i, q, 18) : i \in MemLeaves, q \in ImageQueries}
    \cup {Load(h) : h \in MemLeaves}

(***************************************************************************)
(* Modules for ModuleInfo: up to MaxItems functions and entry points whose *)
(* infos differ.                                                            *)
(***************************************************************************)
MaxItems == 2

\* Calls the first function of the module.
CallerFunction == Function(<<>>, NoType, <<>>, <<Call(0)>>)

\* Reads past the end of its vec3<f32> argument.
OutOfBoundsFunction ==
    Function(<<1>>, 0, <<>>, <<FunctionArgument(0), AccessIndex(0, U32(3))>>)

InfoFunctions ==
    SeqsUpTo({DerivativeFunction, CallerFunction, OutOfBoundsFunction},
             MaxItems)

InfoEntryPoints ==
    SeqsUpTo({EntryPoint("main", "Fragment", <<1, 1, 1>>, DerivativeFunction),
              EntryPoint("aux", "Vertex", <<1, 1, 1>>, EmptyFunction)},
             MaxItems)

InfoModule(functions, entry_points) ==
    Module(<<Scalar("Float", 4), Vector(3, "Float", 4)>>,
           <<ConstScalar(4, "Uint", 2)>>,
           <<GlobalVar("Private", 1, NoBinding)>>, functions, entry_points)

(***************************************************************************)
(* Modules with a good or a bad item in every phase.                       *)
(***************************************************************************)
SmallTypes == <<Scalar("Float", 4), Vector(3, "Float", 4),
                Image("Sampled", FALSE, FALSE)>>

TypesChoices ==
    [ok |-> SmallTypes \o <<Struct(FALSE, <<0>>)>>,
     bad |-> SmallTypes \o <<Struct(TRUE, <<2>>), Struct(TRUE, <<2>>)>>,
     short |-> SmallTypes]

ConstantsChoices ==
    [ok |-> <<ConstScalar(4, "Uint", 2), ConstScalar(4, "Float", 1)>>,
     bad |-> <<ConstScalar(4, "Uint", 2), ConstScalar(3, "Float", 1),
               ConstComposite(1, <<2>>)>>,
     first |-> <<ConstComposite(1, <<0>>), ConstScalar(3, "Float", 1)>>,
     dangling |-> <<ConstScalar(4, "Uint", 2), ConstComposite(9, <<0>>)>>]

GlobalsChoices ==
    [ok |-> <<GlobalVar("Private", 1, NoBinding),
              GlobalVar("Handle", 2, Resource(0, 0)),
              GlobalVar("Input", 0, Location(0))>>,
     bad |-> <<GlobalVar("Private", 1, NoBinding),
               GlobalVar("Private", 2, NoBinding),
               GlobalVar("Input", 2, NoBinding)>>,
     collide |-> <<GlobalVar("Handle", 2, Resource(1, 0)),
                   GlobalVar("Handle", 2, Resource(1, 0))>>]

GoodFunction ==
    Function(<<1>>, 0, <<>>, <<FunctionArgument(0), AccessIndex(0, U32(2))>>)
BadFunction ==
    Function(<<1>>, 0, <<>>, <<FunctionArgument(0), AccessIndex(0, U32(3))>>)

FunctionsChoices ==
    [ok |-> <<GoodFunction>>,
     bad |-> <<GoodFunction, BadFunction, BadFunction>>]

Ep(name, stage, function) == EntryPoint(name, stage, <<1, 1, 1>>, function)

EntryPointsChoices ==
    [ok |-> <<Ep("main", "Vertex", GoodFunction)>>,
     bad |-> <<Ep("main", "Vertex", GoodFunction),
               Ep("aux", "Vertex", DerivativeFunction)>>,
     none |-> <<>>,
     duplicate |-> <<Ep("main", "Vertex", GoodFunction),
                     Ep("main", "Vertex", GoodFunction)>>,
     duplicate_bad |-> <<Ep("main", "Vertex", GoodFunction),
                         Ep("aux", "Fragment", GoodFunction),
                         Ep("main", "Vertex", BadFunction)>>,
     bad_first |-> <<Ep("main", "Vertex", BadFunction),
                     Ep("main", "Vertex", BadFunction)>>,
     same_name |-> <<Ep("main", "Vertex", GoodFunction),
                     Ep("main", "Fragment", GoodFunction)>>,
     same_stage |-> <<Ep("main", "Vertex", GoodFunction),
                      Ep("aux", "Vertex", GoodFunction)>>]

Choice(c, t, g, f, e) ==
    Module(TypesChoices[t], ConstantsChoices[c], GlobalsChoices[g],
           FunctionsChoices[f], EntryPointsChoices[e])

PhaseModules ==
    {Choice(c, t, g, f, e) : c \in {"ok", "bad"}, t \in {"ok", "bad"},
                             g \in {"ok", "bad"}, f \in {"ok", "bad"},
                             e \in {"ok", "bad"}}
    \cup {Choice(c, "ok", "ok", "ok", "ok") : c \in {"first", "dangling"}}
    \cup {Choice("ok", "short", "ok", "ok", "ok")}
    \cup {Choice("ok", "ok", "collide", "ok", "ok")}
    \cup {Choice("ok", "ok", "ok", "ok", e) :
            e \in {"none", "duplicate", "duplicate_bad", "bad_first",
                   "same_name", "same_stage"}}

Modules(fam) ==
    CASE fam = "phases" -> PhaseModules
      [] fam = "access" -> {TestModule(e) : e \in AccessExprs}
      [] fam = "compose" -> {TestModule(e) : e \in ComposeExprs}
      [] fam = "refs" -> {TestModule(e) : e \in RefExprs}
                         \cup {ConstantsModule(c) : c \in RefConstants}
      [] fam = "constants" -> {ConstArenaModule(c) : c \in ConstArenas}
      [] fam = "arith" -> {OpsModule(e) : e \in ArithExprs}
      [] fam = "compare" -> {OpsModule(e) : e \in CompareExprs}
      [] fam = "select" -> {OpsModule(e) : e \in SelectExprs}
      [] fam = "memory" -> {MemModule(e) : e \in MemExprs}
      [] fam = "multiply" -> {MulModule(e) : e \in MulExprs}
      [] fam = "info" -> {InfoModule(f, e) : f \in InfoFunctions,
                                              e \in InfoEntryPoints}

(***************************************************************************)
(* The state machine: a caller owns one Validator and calls validate on    *)
(* one module after another.                                                *)
(***************************************************************************)
AllFlags == {"EXPRESSIONS", "BLOCKS", "CONTROL_FLOW_UNIFORMITY"}

Cur ==
    [validator |-> validator, phase |-> phase, idx |-> idx,
     mod_info |-> mod_info, ep_map |-> ep_map, result |-> result,
     examined |-> examined]

Apply(st) ==
    /\ validator' = st.validator
    /\ phase' = st.phase
    /\ idx' = st.idx
    /\ mod_info' = st.mod_info
    /\ ep_map' = st.ep_map
    /\ result' = st.result
    /\ examined' = st.examined
    /\ UNCHANGED <<module, family, calls, drivervars, prevars>>

InitFamily(fam) ==
    /\ family = fam
    /\ module \in Modules(fam)
    /\ validator = ValidatorNew(AllFlags)
    /\ phase = "idle"
    /\ idx = 0
    /\ mod_info = EmptyInfo
    /\ ep_map = {}
    /\ result = NoResult
    /\ examined = <<>>
    /\ calls = 1
    /\ DriverOff
    /\ PreprocessorOff

Init == InitFamily("phases")
InitAccess == InitFamily("access")
InitCompose == InitFamily("compose")
InitRefs == InitFamily("refs")
InitConstants == InitFamily("constants")
InitArith == InitFamily("arith")
InitCompare == InitFamily("compare")
InitSelect == InitFamily("select")
InitMemory == InitFamily("memory")
InitMultiply == InitFamily("multiply")
InitInfo == InitFamily("info")

Begin ==
    phase = "idle" /\ \E st \in {validate_begin(validator, module)} : Apply(st)
ConstantStep ==
    phase = "constants" /\ \E st \in {constant_step(Cur, module)} : Apply(st)
TypeStep ==
    phase = "types" /\ \E st \in {type_step(Cur, module)} : Apply(st)
GlobalStep ==
    phase = "globals" /\ \E st \in {global_step(Cur, module)} : Apply(st)
FunctionStep ==
    phase = "functions" /\ \E st \in {function_step(Cur, module)} : Apply(st)
EntryPointStep ==
    /\ phase = "entry_points"
    /\ \E st \in {entry_point_step(Cur, module)} : Apply(st)

\* The call has returned; the caller validates another module with the
\* same Validator.
NextModule ==
    /\ phase = "done"
    /\ result.r # "Panic"
    /\ calls < MaxCalls
    /\ \E m \in Modules(family) : module' = m
    /\ phase' = "idle"
    /\ idx' = 0
    /\ mod_info' = EmptyInfo
    /\ ep_map' = {}
    /\ result' = NoResult
    /\ examined' = <<>>
    /\ calls' = calls + 1
    /\ UNCHANGED <<validator, family, drivervars, prevars>>

Next ==
    \/ Begin
    \/ ConstantStep
    \/ TypeStep
    \/ GlobalStep
    \/ FunctionStep
    \/ EntryPointStep
    \/ NextModule

Spec == Init /\ [][Next]_vars
SpecAccess == InitAccess /\ [][Next]_vars
SpecCompose == InitCompose /\ [][Next]_vars
SpecRefs == InitRefs /\ [][Next]_vars
SpecConstants == InitConstants /\ [][Next]_vars
SpecArith == InitArith /\ [][Next]_vars
SpecCompare == InitCompare /\ [][Next]_vars
SpecSelect == InitSelect /\ [][Next]_vars
SpecMemory == InitMemory /\ [][Next]_vars
SpecMultiply == InitMultiply /\ [][Next]_vars
SpecInfo == InitInfo /\ [][Next]_vars

(***************************************************************************)
(* The command-line driver (examples/convert.rs, main).  A path argument   *)
(* is the text before its last "." and the text from it on (ext is "" for  *)
(* a path without "."); env is what the run finds outside the process:     *)
(* whether the glsl feature was compiled in, whether the input can be      *)
(* read, what the front end returns, the .ron parameter file, what the     *)
(* Metal back end returns and whether the output can be written.  A        *)
(* return from main exits with 0 and a panic exits with 101.               *)
(***************************************************************************)
Arg(name, ext) == [name |-> name, ext |-> ext]

GoodModule == InfoModule(<<DerivativeFunction>>, <<>>)
BadModule == InfoModule(<<OutOfBoundsFunction>>, <<>>)

DriverArgs ==
    {<<Arg("convert", "")>>} \cup
    {<<Arg("convert", ""), Arg("in", e)>> :
        e \in {".spv", ".wgsl", ".vert", ".txt", ""}} \cup
    {<<Arg("convert", ""), Arg("in", i), Arg("out", o)>> :
        i \in {".spv", ".wgsl", ".frag", ".comp", ".txt"},
        o \in {".metal", ".spv", ".txt"}} \cup
    {<<Arg("convert", ""), Arg("in", ".wgsl"), Arg("out", ".spv"),
       Arg(d, "")>> : d \in {"true", "false", "yes"}}

DriverEnvs ==
    [glsl : BOOLEAN, readable : BOOLEAN, front : {"Ok", "Err"},
     module : {GoodModule, BadModule}, params : {"missing", "good", "bad"},
     msl : {"Ok", "Err"}, writable : BOOLEAN]

InitDriver ==
    /\ args \in DriverArgs
    /\ env \in DriverEnvs
    /\ dpc = "start"
    /\ parsed = <<>>
    /\ written = FALSE
    /\ exit_code = 0
    /\ validator = ValidatorNew(AllFlags)
    /\ module = GoodModule
    /\ family = "off"
    /\ phase = "off"
    /\ idx = 0
    /\ mod_info = EmptyInfo
    /\ ep_map = {}
    /\ result = NoResult
    /\ examined = <<>>
    /\ calls = 0
    /\ PreprocessorOff

\* The process ends: main returned (0) or a panic unwound it (101).
Exit(code) ==
    /\ dpc' = "exit"
    /\ exit_code' = code

\* The input extensions this build of main matches.
InputExtensions(e) ==
    {".spv", ".wgsl"} \cup
    (IF e.glsl THEN {".vert", ".frag", ".comp"} ELSE {})

\* Lines 26..69: the usage message, the input extension, fs::read and the
\* front end, each failure an unwrap, expect or panic.
ReadInput ==
    /\ dpc = "start"
    /\ IF Len(args) <= 1
         THEN Exit(0) /\ UNCHANGED parsed
         ELSE IF \/ args[2].ext = ""
                 \/ args[2].ext \notin InputExtensions(env)
                 \/ ~env.readable
                 \/ env.front = "Err"
                THEN Exit(101) /\ UNCHANGED parsed
                ELSE /\ parsed' = <<env.module>>
                     /\ dpc' = "parsed"
                     /\ UNCHANGED exit_code
    /\ UNCHANGED <<args, env, written, valvars, prevars>>

\* Lines 71..80: with no output argument the module is printed; otherwise
\* the parameters are read, a missing file meaning the defaults.
ReadParameters ==
    /\ dpc = "parsed"
    /\ IF Len(args) <= 2
         THEN Exit(0)
         ELSE IF env.params = "bad"
                THEN Exit(101)
                ELSE dpc' = "params" /\ UNCHANGED exit_code
    /\ UNCHANGED <<args, env, parsed, written, valvars, prevars>>

\* Lines 82..127: the back end chosen by the output path, then fs::write.
WriteOutput ==
    /\ dpc = "params"
    /\ LET failed ==
               CASE args[3].ext = ".metal" ->
                        env.msl = "Err" \/ ~env.writable
                 [] args[3].ext = ".spv" ->
                        \/ Len(args) >= 4 /\ args[4].name \notin {"true", "false"}
                        \/ ~env.writable
                 [] OTHER -> TRUE
       IN  /\ written' = ~failed
           /\ Exit(IF failed THEN 101 ELSE 0)
    /\ UNCHANGED <<args, env, parsed, valvars, prevars>>

NextDriver ==
    \/ ReadInput
    \/ ReadParameters
    \/ WriteOutput

SpecDriver == InitDriver /\ [][NextDriver]_vars

\* The module main obtained passes Validator::validate.
ModuleValid == validate(ValidatorNew(AllFlags), parsed[1]).result.r = "Ok"

\* C23: the driver exits with 0 only when translation succeeds: when the
\* module it parsed fails validation the run ends with a non-zero exit
\* status and without an output file, as it does for an unreadable input,
\* an unknown extension, a parse failure and a back-end failure.
C23_ExitCodes ==
    (dpc = "exit" /\ parsed # <<>> /\ Len(args) >= 3 /\ ~ModuleValid)
        => (exit_code # 0 /\ ~written)

(***************************************************************************)
(* The GLSL preprocessor (front/glsl/preprocessor.rs).  A string is a      *)
(* sequence of one-character strings, the input is the sequence of lines   *)
(* str::lines yields, usize is 64 bits wide and is kept as four 16-bit     *)
(* limbs, least significant first.  Where an arithmetic overflow panics in *)
(* a build with overflow checks and wraps in one without, build says which *)
(* of the two the run is.                                                  *)
(***************************************************************************)
DigitChars == <<"0", "1", "2", "3", "4", "5", "6", "7", "8", "9">>
Digits == {DigitChars[i] : i \in 1 .. 10}
Letters ==
    {"a", "b", "c", "d", "e", "f", "g", "h", "i", "j", "k", "l", "m", "n",
     "o", "p", "q", "r", "s", "t", "u", "v", "w", "x", "y", "z",
     "A", "B", "C", "D", "E", "F", "G", "H", "I", "J", "K", "L", "M", "N",
     "O", "P", "Q", "R", "S", "T", "U", "V", "W", "X", "Y", "Z"}
Whitespace == {" ", "\t"}

DigitValue(c) == (CHOOSE i \in 1 .. 10 : DigitChars[i] = c) - 1

Drop(s, n) == SubSeq(s, n + 1, Len(s))
Take(s, n) == SubSeq(s, 1, n)
CharAt(s, i) == IF i <= Len(s) THEN s[i] ELSE "EOF"

\* input.find(|c| !what(c)).unwrap_or(input.len()): how many leading
\* characters of s lie in the set what.
RECURSIVE consume_any(_, _)
consume_any(s, what) ==
    IF s = <<>> \/ s[1] \notin what THEN 0
    ELSE 1 + consume_any(Tail(s), what)

(***************************************************************************)
(* usize and i32.                                                          *)
(***************************************************************************)
Usize(n) == <<n % LimbBase, n \div LimbBase, 0, 0>>

\* n * 10 + d over the four limbs, with the carry out of the top limb.
MulAdd10(n, d) ==
    LET a1 == n[1] * 10 + d
        a2 == n[2] * 10 + a1 \div LimbBase
        a3 == n[3] * 10 + a2 \div LimbBase
        a4 == n[4] * 10 + a3 \div LimbBase
    IN  [v |-> <<a1 % LimbBase, a2 % LimbBase, a3 % LimbBase, a4 % LimbBase>>,
         carry |-> a4 \div LimbBase]

\* str::parse::<usize>: Err on overflow (the text is digits only).
RECURSIVE parse_usize(_, _)
parse_usize(s, acc) ==
    IF s = <<>> THEN [ok |-> TRUE, v |-> acc]
    ELSE Bind(MulAdd10(acc, DigitValue(s[1])),
              LAMBDA m : IF m.carry # 0 THEN [ok |-> FALSE, v |-> acc]
                         ELSE parse_usize(Tail(s), m.v))

\* n divided by 10: quotient and remainder.
DivMod10(n) ==
    LET c4 == n[4]
        c3 == (c4 % 10) * LimbBase + n[3]
        c2 == (c3 % 10) * LimbBase + n[2]
        c1 == (c2 % 10) * LimbBase + n[1]
    IN  [q |-> <<c1 \div 10, c2 \div 10, c3 \div 10, c4 \div 10>>,
         r |-> c1 % 10]

\* Display for usize.
RECURSIVE usize_to_string(_)
usize_to_string(n) ==
    Bind(DivMod10(n),
         LAMBDA d : IF d.q = <<0, 0, 0, 0>> THEN <<DigitChars[d.r + 1]>>
                    ELSE usize_to_string(d.q) \o <<DigitChars[d.r + 1]>>)

\* usize as i32: the low 32 bits, as a signed number.
as_i32(n) ==
    IF n[2] >= LimbBase \div 2 THEN (n[2] - LimbBase) * LimbBase + n[1]
    ELSE n[2] * LimbBase + n[1]

\* i32 as usize: sign extension.
as_usize(i) ==
    IF i >= 0 THEN Usize(i)
    ELSE <<i % LimbBase, (i \div LimbBase) + LimbBase, LimbBase - 1, LimbBase - 1>>

I32Min == 0 - 2147483647 - 1
I32Max == 2147483647

\* a + b in i32: the wrapped sum, and whether it overflowed.
i32_add(a, b) ==
    IF a > 0 /\ b > 0 /\ a > I32Max - b
      THEN [ov |-> TRUE, v |-> (a + I32Min) + (b + I32Min)]
    ELSE IF a < 0 /\ b < 0 /\ a < I32Min - b
      THEN [ov |-> TRUE, v |-> (a - I32Min) + (b - I32Min)]
    ELSE [ov |-> FALSE, v |-> a + b]

\* a - b in i32.
i32_sub(a, b) ==
    IF b = I32Min
      THEN IF a >= 0 THEN [ov |-> TRUE, v |-> a + I32Min]
           ELSE [ov |-> FALSE, v |-> (a - I32Min)]
    ELSE i32_add(a, 0 - b)

(***************************************************************************)
(* Tokens.  c is the character a token carries, n the value of an          *)
(* Integral, s the text of a Word; a Float or Double keeps its value as    *)
(* the decimal f32/f64 Display writes: the digits before the point in s    *)
(* without leading zeros, those after it in frac without trailing zeros    *)
(* (exact for literals of up to six significant digits).                   *)
(***************************************************************************)
Token(k, c, n, s, frac) == [k |-> k, c |-> c, n |-> n, s |-> s, frac |-> frac]
Plain(k) == Token(k, "", Usize(0), <<>>, <<>>)
WithChar(k, c) == Token(k, c, Usize(0), <<>>, <<>>)
Word(s) == Token("Word", "", Usize(0), s, <<>>)
Integral(n) == Token("Integral", "", n, <<>>, <<>>)

RECURSIVE StripLeadingZeros(_)
StripLeadingZeros(s) ==
    IF s # <<>> /\ s[1] = "0" THEN StripLeadingZeros(Tail(s)) ELSE s

RECURSIVE StripTrailingZeros(_)
StripTrailingZeros(s) ==
    IF s # <<>> /\ s[Len(s)] = "0"
      THEN StripTrailingZeros(Take(s, Len(s) - 1))
    ELSE s

\* str::parse::<f32> of digits and points that begin with a digit: Err
\* when there is more than one point.
parse_float(k, s) ==
    LET p == consume_any(s, Digits)
        after == Drop(s, p + 1)
    IN  IF consume_any(after, Digits) # Len(after) THEN [ok |-> FALSE]
        ELSE [ok |-> TRUE,
              v |-> Token(k, "", Usize(0), StripLeadingZeros(Take(s, p)),
                          StripTrailingZeros(after))]

ToLower(c) ==
    CASE c = "L" -> "l"
      [] c = "F" -> "f"
      [] OTHER -> c

Consumed(token, rest, start, end) ==
    [token |-> token, rest |-> rest, start |-> start, end |-> end,
     panic |-> FALSE]

\* number.parse().unwrap() failed.
ConsumePanic ==
    [token |-> Plain("End"), rest |-> <<>>, start |-> 0, end |-> 0,
     panic |-> TRUE]

\* consume_token: the token at the front of the line, the rest of the
\* line, and the token's start and end counted from the front.
consume_token(line) ==
    LET start == consume_any(line, Whitespace)
        input == Drop(line, start)
        cur == CharAt(input, 1)
        next == CharAt(input, 2)
        third == CharAt(input, 3)
        one(token) == Consumed(token, Drop(input, 1), start, start + 1)
        two(token) == Consumed(token, Drop(input, 2), start, start + 2)
    IN  CASE input = <<>> -> Consumed(Plain("End"), input, start, start + 1)
          [] cur = ":" ->
                IF next = ":" THEN two(Plain("DoubleColon"))
                ELSE one(WithChar("Separator", cur))
          [] cur \in {";", ",", "."} -> one(WithChar("Separator", cur))
          [] cur \in {"(", ")", "{", "}", "[", "]"} ->
                one(WithChar("Paren", cur))
          [] cur \in {"<", ">"} ->
                IF next = "="
                  THEN Consumed(WithChar("LogicalOperation", cur),
                                Drop(input, 2), start, start + 1)
                ELSE IF next = cur THEN two(WithChar("ShiftOperation", cur))
                ELSE one(WithChar("Paren", cur))
          [] cur \in Digits ->
                LET pos == consume_any(input, Digits \cup {"."})
                    number == Take(input, pos)
                IN  IF "." \in {number[i] : i \in 1 .. pos}
                      THEN IF ToLower(next) = "l" /\ ToLower(third) = "f"
                             THEN LET d == parse_float("Double", number)
                                  IN  IF d.ok
                                        THEN Consumed(d.v, Drop(input, 3),
                                                      start, start + pos + 2)
                                      ELSE ConsumePanic
                           ELSE LET f == parse_float("Float", number)
                                IN  IF f.ok
                                      THEN Consumed(f.v, Drop(input, 1),
                                                    start, start + pos)
                                    ELSE ConsumePanic
                    ELSE LET u == parse_usize(number, Usize(0))
                         IN  IF u.ok
                               THEN Consumed(Integral(u.v), Drop(input, pos),
                                             start, start + pos)
                             ELSE ConsumePanic
          [] cur \in Letters \cup {"_"} ->
                LET pos == consume_any(input, Letters \cup Digits \cup {"_"})
                IN  Consumed(Word(Take(input, pos)), Drop(input, pos),
                             start, start + pos)
          [] cur \in {"+", "-"} ->
                IF next = "=" THEN two(WithChar("OpAssign", cur))
                ELSE IF next = cur THEN two(WithChar("Sufix", cur))
                ELSE one(WithChar("Operation", cur))
          [] cur \in {"%", "^"} ->
                IF next = "=" THEN two(WithChar("OpAssign", cur))
                ELSE one(WithChar("Operation", cur))
          [] cur = "!" ->
                IF next = "=" THEN two(WithChar("LogicalOperation", cur))
                ELSE one(WithChar("Operation", cur))
          [] cur = "*" ->
                IF next = "=" THEN two(WithChar("OpAssign", cur))
                ELSE IF next = "/" THEN two(Plain("MultiLineCommentClose"))
                ELSE one(WithChar("Operation", cur))
          [] cur = "/" ->
                IF next = "=" THEN two(WithChar("OpAssign", cur))
                ELSE IF next = "/" THEN two(Plain("LineComment"))
                ELSE IF next = "*" THEN two(Plain("MultiLineCommentOpen"))
                ELSE one(WithChar("Operation", cur))
          [] cur \in {"=", "&", "|"} ->
                IF next = cur THEN two(WithChar("LogicalOperation", cur))
                ELSE one(WithChar("Operation", cur))
          [] cur = "#" ->
                IF next = "#" THEN two(Plain("TokenPasting"))
                ELSE one(Plain("Preprocessor"))
          [] cur = "~" -> one(WithChar("Operation", cur))
          [] cur = "?" -> one(Plain("Selection"))
          [] OTHER -> one(WithChar("Unknown", cur))

\* Display for Token.
to_string(t) ==
    CASE t.k \in {"Separator", "Paren", "Operation", "Unknown"} -> <<t.c>>
      [] t.k = "DoubleColon" -> <<":">>
      [] t.k = "Integral" -> usize_to_string(t.n)
      [] t.k \in {"Float", "Double"} ->
            (IF t.s = <<>> THEN <<"0">> ELSE t.s) \o
            (IF t.frac = <<>> THEN <<>> ELSE <<".">> \o t.frac)
      [] t.k = "Word" -> t.s
      [] t.k \in {"OpAssign", "LogicalOperation"} -> <<t.c, "=">>
      [] t.k \in {"ShiftOperation", "Sufix"} -> <<t.c, t.c>>
      [] t.k = "LineComment" -> <<"/", "/">>
      [] t.k = "MultiLineCommentOpen" -> <<"/", "*">>
      [] t.k = "MultiLineCommentClose" -> <<"*", "/">>
      [] t.k = "Preprocessor" -> <<"#">>
      [] t.k = "End" -> <<>>
      [] t.k = "Selection" -> <<"?">>
      [] t.k = "TokenPasting" -> <<"#", "#">>

TokenMetadata(token, line, start, end) ==
    [token |-> token, line |-> line, chars |-> [start |-> start, end |-> end]]

(***************************************************************************)
(* The lexer.  lines counts the lines already taken from the line          *)
(* iterator, so the next one it yields is (lines, src[lines + 1]).         *)
(***************************************************************************)
\* The loop that joins a line ending in a backslash with the next line.
RECURSIVE JoinLines(_, _, _)
JoinLines(src, input, lines) ==
    IF input # <<>> /\ input[Len(input)] = "\\" /\ lines < Len(src)
      THEN JoinLines(src, Take(input, Len(input) - 1) \o src[lines + 1],
                     lines + 1)
    ELSE [input |-> input, lines |-> lines]

\* Lexer::new
LexerNew(src) ==
    IF src = <<>>
      THEN [lines |-> 0, input |-> <<>>, line |-> 0, offset |-> 0]
    ELSE LET j == JoinLines(src, src[1], 1)
         IN  [lines |-> j.lines, input |-> j.input, line |-> 0, offset |-> 0]

\* Lexer::next: the lexer afterwards and the token it returned.
RECURSIVE LexerNext(_, _)
LexerNext(src, self) ==
    Bind(consume_token(self.input), LAMBDA c :
      LET metadata == TokenMetadata(c.token, self.line, self.offset + c.start,
                                    c.end + self.offset)
      IN  IF c.panic THEN [lexer |-> self, token |-> metadata, panic |-> TRUE]
          ELSE IF c.token.k = "End"
            THEN IF self.lines < Len(src)
                   THEN Bind(JoinLines(src, src[self.lines + 1],
                                       self.lines + 1),
                             LAMBDA j :
                               LexerNext(src, [lines |-> j.lines,
                                               input |-> j.input,
                                               line |-> self.lines,
                                               offset |-> 0]))
                 ELSE [lexer |-> self, token |-> metadata, panic |-> FALSE]
          ELSE [lexer |-> [self EXCEPT !.input = c.rest,
                                       !.offset = self.offset + c.end],
                token |-> metadata, panic |-> FALSE])

\* Lexer::peek
LexerPeek(src, self) == LexerNext(src, self).token

\* The spelling of the words the preprocessor knows.
Spelling ==
       "define" :> <<"d", "e", "f", "i", "n", "e">>
    @@ "undef" :> <<"u", "n", "d", "e", "f">>
    @@ "if" :> <<"i", "f">>
    @@ "ifdef" :> <<"i", "f", "d", "e", "f">>
    @@ "ifndef" :> <<"i", "f", "n", "d", "e", "f">>
    @@ "else" :> <<"e", "l", "s", "e">>
    @@ "elif" :> <<"e", "l", "i", "f">>
    @@ "endif" :> <<"e", "n", "d", "i", "f">>
    @@ "error" :> <<"e", "r", "r", "o", "r">>
    @@ "pragma" :> <<"p", "r", "a", "g", "m", "a">>
    @@ "optimize" :> <<"o", "p", "t", "i", "m", "i", "z", "e">>
    @@ "debug" :> <<"d", "e", "b", "u", "g">>
    @@ "extension" :> <<"e", "x", "t", "e", "n", "s", "i", "o", "n">>
    @@ "all" :> <<"a", "l", "l">>
    @@ "require" :> <<"r", "e", "q", "u", "i", "r", "e">>
    @@ "enable" :> <<"e", "n", "a", "b", "l", "e">>
    @@ "warn" :> <<"w", "a", "r", "n">>
    @@ "disable" :> <<"d", "i", "s", "a", "b", "l", "e">>
    @@ "version" :> <<"v", "e", "r", "s", "i", "o", "n">>
    @@ "core" :> <<"c", "o", "r", "e">>
    @@ "compatibility" :> <<"c", "o", "m", "p", "a", "t", "i", "b", "i", "l", "i", "t", "y">>
    @@ "es" :> <<"e", "s">>
    @@ "line" :> <<"l", "i", "n", "e">>
    @@ "__LINE__" :> <<"_", "_", "L", "I", "N", "E", "_", "_">>
    @@ "__FILE__" :> <<"_", "_", "F", "I", "L", "E", "_", "_">>
    @@ "__VERSION__" :> <<"_", "_", "V", "E", "R", "S", "I", "O", "N", "_", "_">>
    @@ "GL_SPIRV" :> <<"G", "L", "_", "S", "P", "I", "R", "V">>
    @@ "VULKAN" :> <<"V", "U", "L", "K", "A", "N">>
    @@ "GL_core_profile" :> <<"G", "L", "_", "c", "o", "r", "e", "_", "p", "r", "o", "f", "i", "l", "e">>
    @@ "GL_" :> <<"G", "L", "_">>

(***************************************************************************)
(* Results of preprocess and of its parts: Ok, Error(Error{kind}) or a       *)
(* panic.                                                                  *)
(***************************************************************************)
Outcome(r, kind, text) == [r |-> r, kind |-> kind, text |-> text]
Running == Outcome("Running", "", <<>>)
Error(kind) == Outcome("Err", kind, <<>>)
Panicked == Outcome("Panic", "", <<>>)

\* usize arithmetic.  A negative number n stands for 2^64 + n, the value a
\* wrapped subtraction leaves; ov tells whether the operation overflowed.
usize_lt(a, b) ==
    IF (a < 0) = (b < 0) THEN a < b ELSE b < 0
usize_sub(a, b) == [ov |-> usize_lt(a, b), v |-> a - b]
usize_add(a, b) ==
    [ov |-> (a < 0 /\ b < 0) \/ ((a < 0) # (b < 0) /\ a + b >= 0),
     v |-> a + b]

\* An overflow panics in a build with overflow checks.
Overflows(b, x) == b = "debug" /\ x.ov

\* The predefined macros: one Integral token at line 0, characters 0..1.
Builtin(n) == <<TokenMetadata(Integral(n), 0, 0, 1)>>

InitialMacros ==
    (Spelling["GL_SPIRV"] :> Builtin(Usize(100))) @@
    (Spelling["VULKAN"] :> Builtin(Usize(100)))

\* The closure of get_macro!: the macro's tokens moved to the place of
\* the token that names it.
\* One round of the loop: the token moved, the offset so far, and
\* whether an operation overflowed.
RelocateToken(t, start, off, at) ==
    LET length == usize_sub(t.chars.end, t.chars.start)
        moved == usize_sub(t.chars.start, start)
        sum == usize_add(off, moved.v)
        s == usize_add(at.chars.start, sum.v)
        le == usize_add(length.v, at.chars.start)
        e == usize_add(le.v, sum.v)
    IN  [ov |-> \E x \in {length, moved, sum, s, le, e} : x.ov,
         v |-> TokenMetadata(t.token, at.line, s.v, e.v),
         offset |-> sum.v]

RECURSIVE Relocate(_, _, _, _, _, _)
Relocate(ts, i, start, off, at, b) ==
    IF i > Len(ts) THEN [panic |-> FALSE, stream |-> ts]
    ELSE Bind(RelocateToken(ts[i], start, off, at), LAMBDA r :
           IF Overflows(b, r) THEN [panic |-> TRUE, stream |-> <<>>]
           ELSE Bind([ts EXCEPT ![i] = r.v], LAMBDA moved :
                  Relocate(moved, i + 1, ts[i].chars.start, r.offset, at, b)))

\* get_macro!(name, token): Some(stream), None, or a panic.
get_macro(name, token, ms, lo, b) ==
    CASE name = Spelling["__LINE__"] ->
            LET a == i32_add(token.line, lo)
                n == i32_add(a.v, 1)
            IN  IF Overflows(b, a) \/ Overflows(b, n)
                  THEN [r |-> "Panic", stream |-> <<>>]
                ELSE [r |-> "Some", stream |-> Builtin(as_usize(n.v))]
      [] name = Spelling["__FILE__"] ->
            [r |-> "Some", stream |-> Builtin(Usize(0))]
      [] name = Spelling["__VERSION__"] ->
            [r |-> "Some", stream |-> Builtin(Usize(460))]
      [] OTHER ->
            IF name \notin DOMAIN ms THEN [r |-> "None", stream |-> <<>>]
            ELSE IF ms[name] = <<>> THEN [r |-> "Panic", stream |-> <<>>]
            ELSE LET m == Relocate(ms[name], 1, ms[name][1].chars.start, 0,
                                   token, b)
                 IN  IF m.panic THEN [r |-> "Panic", stream |-> <<>>]
                     ELSE [r |-> "Some", stream |-> m.stream]

(***************************************************************************)
(* parse_preprocessor.  toks is the vector parse_comments returned and c   *)
(* the number of tokens the peekable iterator has yielded.                 *)
(***************************************************************************)
Directive(r, kind, c, ms, lo) ==
    [r |-> r, kind |-> kind, cursor |-> c, macros |-> ms, line_offset |-> lo]

\* if token.line == lexer.peek().ok_or(EOF)?.line { lexer.next() } else
\* { return Error(EOL) }: the token, or the error kind.
same_line(toks, c, line) ==
    IF c >= Len(toks) THEN [ok |-> FALSE, kind |-> "EOF"]
    ELSE IF toks[c + 1].line # line THEN [ok |-> FALSE, kind |-> "EOL"]
    ELSE [ok |-> TRUE, token |-> toks[c + 1].token]

\* The loop of #define that collects the replacement list, expanding the
\* words that name a macro as it goes.
RECURSIVE define_body(_, _, _, _, _, _, _)
define_body(toks, c, token, ms, lo, b, macro_tokens) ==
    IF c >= Len(toks) THEN [r |-> "Err", kind |-> "EOF"]
    ELSE IF toks[c + 1].line # token.line
      THEN [r |-> "Ok", cursor |-> c, macro_tokens |-> macro_tokens]
    ELSE LET macro_token == toks[c + 1]
         IN  Bind(IF macro_token.token.k = "Word"
                    THEN get_macro(macro_token.token.s, token, ms, lo, b)
                  ELSE [r |-> "None", stream |-> <<>>],
                  LAMBDA g :
                    IF g.r = "Panic" THEN [r |-> "Panic", kind |-> ""]
                    ELSE Bind(macro_tokens \o
                                  (IF g.r = "Some" THEN g.stream
                                   ELSE <<macro_token>>),
                              LAMBDA collected :
                                define_body(toks, c + 1, token, ms, lo, b,
                                            collected)))

\* #pragma optimize and #pragma debug: ( word )
pragma_arguments(toks, c, token, ms, lo) ==
    LET open == same_line(toks, c, token.line)
        status == same_line(toks, c + 1, token.line)
        close == same_line(toks, c + 2, token.line)
    IN  IF ~open.ok THEN Directive("Err", open.kind, c, ms, lo)
        ELSE IF open.token # WithChar("Paren", "(")
          THEN Directive("Err", "UnexpectedToken", c, ms, lo)
        ELSE IF ~status.ok THEN Directive("Err", status.kind, c, ms, lo)
        ELSE IF status.token.k # "Word"
          THEN Directive("Err", "UnexpectedToken", c, ms, lo)
        ELSE IF ~close.ok THEN Directive("Err", close.kind, c, ms, lo)
        ELSE IF close.token # WithChar("Paren", ")")
          THEN Directive("Err", "UnexpectedToken", c, ms, lo)
        ELSE Directive("Ok", "", c + 3, ms, lo)

\* The match on the directive's name (lines 628..1222); c counts the
\* tokens up to and including the name, token is the "#".
directive(op, toks, c, token, ms, lo, b) ==
    LET first == same_line(toks, c, token.line)
        second == same_line(toks, c + 1, token.line)
        third == same_line(toks, c + 2, token.line)
        fail(kind) == Directive("Err", kind, c, ms, lo)
    IN  CASE op = Spelling["define"] ->
                IF ~first.ok THEN fail(first.kind)
                ELSE IF first.token.k # "Word" THEN fail("UnexpectedToken")
                ELSE IF Len(first.token.s) >= 3 /\
                        Take(first.token.s, 3) = Spelling["GL_"]
                  THEN fail("ReservedMacro")
                ELSE Bind(define_body(toks, c + 1, token, ms, lo, b, <<>>),
                          LAMBDA body :
                            IF body.r # "Ok"
                              THEN Directive(body.r, body.kind, c, ms, lo)
                            ELSE Directive("Ok", "", body.cursor,
                                           (first.token.s :>
                                                body.macro_tokens) @@ ms,
                                           lo))
          [] op = Spelling["undef"] ->
                IF ~first.ok THEN fail(first.kind)
                ELSE IF first.token.k # "Word" THEN fail("UnexpectedToken")
                ELSE Directive("Ok", "", c + 1,
                               [w \in DOMAIN ms \ {first.token.s} |-> ms[w]],
                               lo)
          [] op \in {Spelling[w] : w \in {"if", "ifdef", "ifndef", "else",
                                          "elif", "endif"}} ->
                Directive("Panic", "", c, ms, lo)
          [] op = Spelling["error"] ->
                IF c >= Len(toks) THEN fail("EOF")
                ELSE Directive("Panic", "", c, ms, lo)
          [] op = Spelling["pragma"] ->
                IF ~first.ok THEN fail(first.kind)
                ELSE IF first.token.k # "Word" THEN fail("UnexpectedToken")
                ELSE IF first.token.s \in {Spelling["optimize"],
                                           Spelling["debug"]}
                  THEN pragma_arguments(toks, c + 1, token, ms, lo)
                ELSE fail("UnknownPragma")
          [] op = Spelling["extension"] ->
                IF ~first.ok THEN fail(first.kind)
                ELSE IF first.token.k # "Word" THEN fail("UnexpectedToken")
                ELSE IF ~second.ok THEN fail(second.kind)
                ELSE IF second.token.k # "DoubleColon"
                  THEN fail("UnexpectedToken")
                ELSE IF ~third.ok THEN fail(third.kind)
                ELSE IF third.token.k # "Word" THEN fail("UnexpectedToken")
                ELSE LET behavior == third.token.s
                         is(ws) == behavior \in {Spelling[w] : w \in ws}
                     IN  IF first.token.s = Spelling["all"]
                           THEN IF is({"require", "enable"})
                                  THEN fail("AllExtensionsEnabled")
                                ELSE IF is({"warn", "disable"})
                                  THEN Directive("Ok", "", c + 3, ms, lo)
                                ELSE fail("ExtensionUnknownBehavior")
                         ELSE IF is({"require"})
                           THEN fail("ExtensionNotSupported")
                         ELSE IF is({"enable", "warn", "disable"})
                           THEN Directive("Ok", "", c + 3, ms, lo)
                         ELSE fail("ExtensionUnknownBehavior")
          [] op = Spelling["version"] ->
                IF ~first.ok THEN fail(first.kind)
                ELSE IF first.token.k # "Integral"
                  THEN fail("UnexpectedToken")
                ELSE IF first.token.n \notin {Usize(450), Usize(460)}
                  THEN fail("UnsupportedVersion")
                ELSE IF ~second.ok THEN fail(second.kind)
                ELSE IF second.token.k # "Word" THEN fail("UnexpectedToken")
                ELSE IF second.token.s = Spelling["core"]
                  THEN Directive("Ok", "", c + 2,
                                 (Spelling["GL_core_profile"] :>
                                      Builtin(Usize(1))) @@ ms, lo)
                ELSE IF second.token.s \in {Spelling["compatibility"],
                                            Spelling["es"]}
                  THEN fail("UnsupportedProfile")
                ELSE fail("UnknownProfile")
          [] op = Spelling["line"] ->
                IF ~first.ok THEN fail(first.kind)
                ELSE IF first.token.k # "Integral"
                  THEN fail("UnexpectedToken")
                ELSE IF ~second.ok THEN fail(second.kind)
                ELSE IF second.token.k # "Word" THEN fail("UnexpectedToken")
                ELSE LET d == i32_sub(as_i32(first.token.n), token.line)
                     IN  IF Overflows(b, d)
                           THEN Directive("Panic", "", c, ms, lo)
                         ELSE Directive("Ok", "", c + 2, ms, d.v)
          [] OTHER -> fail("UnknownPreprocessorDirective")

(***************************************************************************)
(* Inputs.  Each line is written out character by character.               *)
(***************************************************************************)

\* Spellings of every kind of token that is neither a comment nor a directive.
Lexemes ==
    {<<"a">>,  \* a
     <<"x", "1">>,  \* x1
     <<"_", "b">>,  \* _b
     <<"1">>,  \* 1
     <<"0", "0", "7">>,  \* 007
     <<"4", "2">>,  \* 42
     <<"1", ".", "5">>,  \* 1.5
     <<"1", ".", "5", "0">>,  \* 1.50
     <<"2", ".", "0">>,  \* 2.0
     <<"0", ".", "2", "5">>,  \* 0.25
     <<"<", "=">>,  \* <=
     <<">", "=">>,  \* >=
     <<"&", "&">>,  \* &&
     <<"|", "|">>,  \* ||
     <<":", ":">>,  \* ::
     <<"=", "=">>,  \* ==
     <<"!", "=">>,  \* !=
     <<"<", "<">>,  \* <<
     <<">", ">">>,  \* >>
     <<"+", "=">>,  \* +=
     <<"-", "=">>,  \* -=
     <<"*", "=">>,  \* *=
     <<"%", "=">>,  \* %=
     <<"+", "+">>,  \* ++
     <<"-", "-">>,  \* --
     <<"+">>,  \* +
     <<"-">>,  \* -
     <<"*">>,  \* *
     <<"%">>,  \* %
     <<"^">>,  \* ^
     <<"<">>,  \* <
     <<">">>,  \* >
     <<"(">>,  \* (
     <<")">>,  \* )
     <<"{">>,  \* {
     <<"}">>,  \* }
     <<"[">>,  \* [
     <<"]">>,  \* ]
     <<";">>,  \* ;
     <<",">>,  \* ,
     <<":">>,  \* :
     <<".">>,  \* .
     <<"=">>,  \* =
     <<"&">>,  \* &
     <<"|">>,  \* |
     <<"!">>,  \* !
     <<"~">>,  \* ~
     <<"?">>,  \* ?
     <<"/">>,  \* /
     <<"@">>}  \* @

\* A line of one or two lexemes a space apart, or run together, and two
\* lines of one lexeme each.
LexSources ==
    {<<a \o <<" ">> \o b>> : a \in Lexemes, b \in Lexemes \cup {<<>>}} \cup
    {<<a \o b>> : a \in Lexemes,
                  b \in {<<"a">>, <<"1">>, <<"=">>, <<";">>}} \cup
    {<<a, <<" ">> \o b>> : a \in {<<"a">>, <<"1", ".", "5">>, <<"&", "&">>},
                          b \in Lexemes}

\* Lines that define and remove macros and set the line number.
DefinitionLines ==
    {<<"#", "d", "e", "f", "i", "n", "e", " ", "A", " ", "1">>,  \* #define A 1
     <<"#", "d", "e", "f", "i", "n", "e", " ", "B", " ", "A">>,  \* #define B A
     <<"#", "d", "e", "f", "i", "n", "e", " ", "E">>,  \* #define E
     <<"#", "u", "n", "d", "e", "f", " ", "A">>,  \* #undef A
     <<"#", "d", "e", "f", "i", "n", "e", " ", "G", "L", "_", "A", " ", "1">>,  \* #define GL_A 1
     <<"#", "l", "i", "n", "e", " ", "5", " ", "f">>,  \* #line 5 f
     <<"#", "l", "i", "n", "e", " ", "4", "2", "9", "4", "9", "6", "7", "2", "9", "6", " ", "f">>}  \* #line 4294967296 f

\* A second definition, the removal of a name that is not defined, uses between directives.
MoreLines ==
    {<<"#", "d", "e", "f", "i", "n", "e", " ", "A", " ", "2", " ", "+", " ", "x">>,  \* #define A 2 + x
     <<"#", "u", "n", "d", "e", "f", " ", "C">>,  \* #undef C
     <<"A">>,  \* A
     <<"_", "_", "L", "I", "N", "E", "_", "_">>,  \* __LINE__
     <<"#", "l", "i", "n", "e", " ", "2", "1", "4", "7", "4", "8", "3", "6", "4", "7", " ", "f">>}  \* #line 2147483647 f

\* Last lines, which use macros.
UseLines ==
    {<<"A", " ", "B">>,  \* A B
     <<"E">>,  \* E
     <<"x", " ", "_", "_", "L", "I", "N", "E", "_", "_">>,  \* x __LINE__
     <<"_", "_", "F", "I", "L", "E", "_", "_">>,  \* __FILE__
     <<"B">>}  \* B

MaxLines == 3

\* Up to MaxLines lines of DefinitionLines, or one line of either set and
\* one of MoreLines, followed by one of UseLines.
MacroSources ==
    {ls \o <<u>> : ls \in SeqsUpTo(DefinitionLines, MaxLines),
                   u \in UseLines} \cup
    {<<a, b, u>> : a \in DefinitionLines \cup MoreLines, b \in MoreLines,
                   u \in UseLines}

\* One line for every directive and for every way a directive is rejected.
DirectiveLines ==
    {<<"#", "v", "e", "r", "s", "i", "o", "n", " ", "4", "5", "0", " ", "c", "o", "r", "e">>,  \* #version 450 core
     <<"#", "v", "e", "r", "s", "i", "o", "n", " ", "4", "6", "0", " ", "c", "o", "r", "e">>,  \* #version 460 core
     <<"#", "v", "e", "r", "s", "i", "o", "n", " ", "4", "5", "0", " ", "e", "s">>,  \* #version 450 es
     <<"#", "v", "e", "r", "s", "i", "o", "n", " ", "4", "5", "0", " ", "f", "o", "o">>,  \* #version 450 foo
     <<"#", "v", "e", "r", "s", "i", "o", "n", " ", "3", "3", "0", " ", "c", "o", "r", "e">>,  \* #version 330 core
     <<"#", "v", "e", "r", "s", "i", "o", "n", " ", "c", "o", "r", "e">>,  \* #version core
     <<"#", "v", "e", "r", "s", "i", "o", "n", " ", "4", "5", "0">>,  \* #version 450
     <<"#", "i", "f", " ", "1">>,  \* #if 1
     <<"#", "i", "f", "d", "e", "f", " ", "A">>,  \* #ifdef A
     <<"#", "i", "f", "n", "d", "e", "f", " ", "A">>,  \* #ifndef A
     <<"#", "e", "l", "s", "e">>,  \* #else
     <<"#", "e", "l", "i", "f", " ", "1">>,  \* #elif 1
     <<"#", "e", "n", "d", "i", "f">>,  \* #endif
     <<"#", "e", "r", "r", "o", "r", " ", "n", "o">>,  \* #error no
     <<"#", "e", "r", "r", "o", "r">>,  \* #error
     <<"#", "p", "r", "a", "g", "m", "a", " ", "o", "p", "t", "i", "m", "i", "z", "e", "(", "o", "n", ")">>,  \* #pragma optimize(on)
     <<"#", "p", "r", "a", "g", "m", "a", " ", "d", "e", "b", "u", "g", "(", "o", "f", "f", ")">>,  \* #pragma debug(off)
     <<"#", "p", "r", "a", "g", "m", "a", " ", "d", "e", "b", "u", "g", " ", "o", "n">>,  \* #pragma debug on
     <<"#", "p", "r", "a", "g", "m", "a", " ", "o", "p", "t", "i", "m", "i", "z", "e", "(", "1", ")">>,  \* #pragma optimize(1)
     <<"#", "p", "r", "a", "g", "m", "a", " ", "o", "p", "t", "i", "m", "i", "z", "e", "(", "o", "n">>,  \* #pragma optimize(on
     <<"#", "p", "r", "a", "g", "m", "a", " ", "f", "o", "o">>,  \* #pragma foo
     <<"#", "p", "r", "a", "g", "m", "a">>,  \* #pragma
     <<"#", "e", "x", "t", "e", "n", "s", "i", "o", "n", " ", "a", "l", "l", " ", ":", ":", " ", "w", "a", "r", "n">>,  \* #extension all :: warn
     <<"#", "e", "x", "t", "e", "n", "s", "i", "o", "n", " ", "a", "l", "l", " ", ":", ":", " ", "e", "n", "a", "b", "l", "e">>,  \* #extension all :: enable
     <<"#", "e", "x", "t", "e", "n", "s", "i", "o", "n", " ", "a", "l", "l", " ", ":", ":", " ", "m", "a", "y", "b", "e">>,  \* #extension all :: maybe
     <<"#", "e", "x", "t", "e", "n", "s", "i", "o", "n", " ", "e", " ", ":", ":", " ", "r", "e", "q", "u", "i", "r", "e">>,  \* #extension e :: require
     <<"#", "e", "x", "t", "e", "n", "s", "i", "o", "n", " ", "e", " ", ":", ":", " ", "e", "n", "a", "b", "l", "e">>,  \* #extension e :: enable
     <<"#", "e", "x", "t", "e", "n", "s", "i", "o", "n", " ", "e", " ", ":", ":", " ", "m", "a", "y", "b", "e">>,  \* #extension e :: maybe
     <<"#", "e", "x", "t", "e", "n", "s", "i", "o", "n", " ", "e", " ", ":", " ", "e", "n", "a", "b", "l", "e">>,  \* #extension e : enable
     <<"#", "e", "x", "t", "e", "n", "s", "i", "o", "n", " ", "e">>,  \* #extension e
     <<"#", "e", "x", "t", "e", "n", "s", "i", "o", "n", " ", "1">>,  \* #extension 1
     <<"#", "f", "o", "o">>,  \* #foo
     <<"#">>,  \* #
     <<"#", " ", "1">>,  \* # 1
     <<"#", "d", "e", "f", "i", "n", "e">>,  \* #define
     <<"#", "d", "e", "f", "i", "n", "e", " ", "1">>,  \* #define 1
     <<"#", "u", "n", "d", "e", "f">>,  \* #undef
     <<"#", "u", "n", "d", "e", "f", " ", "1">>,  \* #undef 1
     <<"#", "l", "i", "n", "e">>,  \* #line
     <<"#", "l", "i", "n", "e", " ", "f">>,  \* #line f
     <<"#", "l", "i", "n", "e", " ", "5">>,  \* #line 5
     <<"#", "l", "i", "n", "e", " ", "5", " ", "6">>,  \* #line 5 6
     <<"#", "d", "e", "f", "i", "n", "e", " ", "A", " ", "1", " ", "#", "#", " ", "2">>,  \* #define A 1 ## 2
     <<"#", "u", "n", "d", "e", "f", " ", "A", " ", "B">>,  \* #undef A B
     <<"#", "v", "e", "r", "s", "i", "o", "n", " ", "4", "5", "0", " ", "c", "o", "r", "e", " ", "x">>}  \* #version 450 core x

\* A directive, alone and followed by lines that use what it defines.
DirectiveSources ==
    {<<d>> : d \in DirectiveLines} \cup
    {<<d, u>> : d \in DirectiveLines,
                u \in {<<"G", "L", "_", "c", "o", "r", "e", "_",
                          "p", "r", "o", "f", "i", "l", "e">>,
                        <<"_", "_", "V", "E", "R", "S", "I", "O", "N", "_",
                          "_">>}}

\* Comments, lines joined by a backslash, numbers that do not parse, blank input.
CommentSources ==
    {<<<<"/", "/", " ", "c">>>>,
     <<<<"a", " ", "/", "/", " ", "c">>>>,
     <<<<"/", "/", " ", "c">>, <<"x">>>>,
     <<<<"a", " ", "/", "/", " ", "c">>, <<>>, <<"b">>>>,
     <<<<"x">>, <<"/", "/", " ", "c">>>>,
     <<<<"/", "*", " ", "c", " ", "*", "/", " ", "a">>>>,
     <<<<"/", "*", " ", "c">>>>,
     <<<<"/", "*", " ", "c">>, <<"d", " ", "*", "/", " ", "e">>>>,
     <<<<"a", " ", "/", "*", " ", "b", " ", "*", "/", " ", "c">>>>,
     <<<<"/", "/", " ", "1", ".", "2", ".", "3">>>>,
     <<<<"/", "*", " ", "1", ".", "2", ".", "3", " ", "*", "/">>>>,
     <<<<"a", " ", "/", "*", " ", "b">>, <<"c", " ", "/", "/", " ", "d">>, <<"e", " ", "*", "/", " ", "f">>>>,
     <<<<"/", "/", " ", "c">>, <<"/", "/", " ", "d">>>>,
     <<<<"a", " ", "\\">>, <<"b">>>>,
     <<<<"a", " ", "\\">>>>,
     <<<<"1", ".", "2", ".", "3">>>>,
     <<<<"1", "8", "4", "4", "6", "7", "4", "4", "0", "7", "3", "7", "0", "9", "5", "5", "1", "6", "1", "6", "0">>>>,
     <<<<"1", "8", "4", "4", "6", "7", "4", "4", "0", "7", "3", "7", "0", "9", "5", "5", "1", "6", "1", "5">>>>,
     <<<<"1", ".", "5", "l", "f">>>>,
     <<<<>>>>,
     <<>>,
     <<<<" ", " ">>>>,
     <<<<"a">>, <<>>, <<"b">>>>,
     <<<<"a", " ", "+", " ", "1", " ", "/", "/", " ", "c">>>>,
     <<<<"#", "d", "e", "f", "i", "n", "e", " ", "A", " ", "1", " ", "/",
         "*", "c", "*", "/">>,
       <<"A", " ", "/", "/", " ", "c">>>>,
     <<<<"#", "d", "e", "f", "i", "n", "e", " ", "A", " ", "1", " ", "/",
         "/", "c">>,
       <<"A">>>>}

Sources == LexSources \cup MacroSources \cup DirectiveSources \cup CommentSources

\* The validator is not running.
ValidatorOff ==
    /\ validator = ValidatorNew(AllFlags)
    /\ module = GoodModule
    /\ family = "off"
    /\ phase = "off"
    /\ idx = 0
    /\ mod_info = EmptyInfo
    /\ ep_map = {}
    /\ result = NoResult
    /\ examined = <<>>
    /\ calls = 0

\* preprocess(input) has been called: the lexer is built, parse_comments
\* is about to take its first token.
InitSources(inputs) ==
    /\ source \in inputs
    /\ build \in {"debug", "release"}
    /\ pc = "comments"
    /\ lexer = LexerNew(source)
    /\ comment = 0
    /\ stripped = <<>>
    /\ cursor = 0
    /\ tokens = <<>>
    /\ macros = InitialMacros
    /\ line_offset = 0
    /\ offset = <<0, 0>>
    /\ outcome = Running
    /\ ValidatorOff
    /\ DriverOff

InitPreprocess == InitSources(Sources)
InitComments == InitSources(CommentSources)

\* The loop of parse_comments that skips a /* comment: the lexer after the
\* closing token, or EOF when the input ends first.
RECURSIVE block_comment(_, _)
block_comment(src, lx) ==
    Bind(LexerNext(src, lx), LAMBDA n :
      IF n.panic THEN [r |-> "Panic", lexer |-> lx]
      ELSE IF n.token.token.k = "MultiLineCommentClose"
        THEN [r |-> "Ok", lexer |-> n.lexer]
      ELSE IF n.token.token.k = "End" THEN [r |-> "Err", lexer |-> lx]
      ELSE block_comment(src, n.lexer))

\* if offset.0 == token.line { token.chars += offset.1 }
Shifted(t, line, off) ==
    IF off[1] = line
      THEN TokenMetadata(t.token, t.line, t.chars.start + off[2],
                         t.chars.end + off[2])
    ELSE t

\* " ".repeat(n) and "\n".repeat(n)
Repeat(c, n) == [i \in 1 .. n |-> c]

\* The fold of preprocess over the tokens: the text, or a panic when a
\* subtraction overflows or the count to repeat is out of range.
RECURSIVE fold(_, _, _, _, _, _)
fold(ts, i, line, start, acc, b) ==
    IF i > Len(ts) THEN Outcome("Ok", "", acc)
    ELSE LET token == ts[i]
             lines == usize_sub(token.line, line)
             start1 == IF lines.v # 0 THEN 0 ELSE start
             spaces == usize_sub(token.chars.start, start1)
         IN  IF \/ Overflows(b, lines) \/ lines.v < 0
                \/ Overflows(b, spaces) \/ spaces.v < 0
               THEN Panicked
             ELSE Bind(acc \o Repeat("\n", lines.v) \o Repeat(" ", spaces.v)
                           \o to_string(token.token),
                       LAMBDA pushed :
                         fold(ts, i + 1, token.line, token.chars.end, pushed,
                              b))

(***************************************************************************)
(* preprocess as a state machine: one step per round of the loop of        *)
(* parse_comments, per test and per round of its line-comment loop, per    *)
(* round of the loop of parse_preprocessor, and one for the final fold.    *)
(***************************************************************************)
Finish(o) ==
    /\ pc' = "done"
    /\ outcome' = o

\* parse_comments, one round of the outer loop.
StripToken ==
    /\ pc = "comments"
    /\ \E n \in {LexerNext(source, lexer)} :
       LET k == n.token.token.k
           skipped == block_comment(source, n.lexer)
       IN  IF n.panic
             THEN Finish(Panicked) /\ UNCHANGED <<lexer, comment, stripped>>
           ELSE IF k = "MultiLineCommentOpen"
             THEN IF skipped.r = "Ok"
                    THEN /\ lexer' = skipped.lexer
                         /\ UNCHANGED <<pc, outcome, comment, stripped>>
                  ELSE /\ Finish(IF skipped.r = "Err" THEN Error("EOF")
                                 ELSE Panicked)
                       /\ UNCHANGED <<lexer, comment, stripped>>
           ELSE IF k = "LineComment"
             THEN /\ lexer' = n.lexer
                  /\ comment' = n.token.line
                  /\ pc' = "line_comment"
                  /\ UNCHANGED <<outcome, stripped>>
           ELSE /\ lexer' = n.lexer
                /\ stripped' = Append(stripped, n.token)
                /\ pc' = IF k = "End" THEN "preprocessor" ELSE "comments"
                /\ UNCHANGED <<outcome, comment>>
    /\ UNCHANGED <<source, build, cursor, tokens, macros, line_offset,
                   offset, valvars, drivervars>>

\* while token.line != lexer.peek().line || Token::End != lexer.peek().token
LineCommentTest ==
    /\ pc = "line_comment"
    /\ \E p \in {LexerNext(source, lexer)} :
           IF p.panic THEN Finish(Panicked)
           ELSE /\ pc' = IF comment # p.token.line \/ p.token.token.k # "End"
                           THEN "line_comment_skip"
                         ELSE "comments"
                /\ UNCHANGED outcome
    /\ UNCHANGED <<source, build, lexer, comment, stripped, cursor, tokens,
                   macros, line_offset, offset, valvars, drivervars>>

\* let _ = lexer.next();
LineCommentSkip ==
    /\ pc = "line_comment_skip"
    /\ lexer' = LexerNext(source, lexer).lexer
    /\ pc' = "line_comment"
    /\ UNCHANGED <<source, build, comment, stripped, cursor, tokens, macros,
                   line_offset, offset, outcome, valvars, drivervars>>

\* The token the round of parse_preprocessor's loop takes.
Current == stripped[cursor + 1]

AtToken(kinds) ==
    /\ pc = "preprocessor"
    /\ cursor < Len(stripped)
    /\ Current.token.k \in kinds

\* Token::Preprocessor
DirectiveStep ==
    /\ AtToken({"Preprocessor"})
    /\ LET token == Current
           op == same_line(stripped, cursor + 1, token.line)
       IN  IF ~op.ok
             THEN IF op.kind = "EOF"
                    THEN /\ Finish(Error("EOF"))
                         /\ UNCHANGED <<cursor, macros, line_offset>>
                  ELSE /\ cursor' = cursor + 1
                       /\ UNCHANGED <<pc, outcome, macros, line_offset>>
           ELSE IF op.token.k # "Word"
             THEN /\ Finish(Error("UnexpectedToken"))
                  /\ UNCHANGED <<cursor, macros, line_offset>>
           ELSE \E d \in {directive(op.token.s, stripped, cursor + 2, token,
                                    macros, line_offset, build)} :
                  IF d.r # "Ok"
                    THEN /\ Finish(IF d.r = "Err" THEN Error(d.kind)
                                   ELSE Panicked)
                         /\ UNCHANGED <<cursor, macros, line_offset>>
                  ELSE IF d.cursor < Len(stripped) /\
                          stripped[d.cursor + 1].line = token.line
                    THEN /\ Finish(Error("ExpectedEOL"))
                         /\ UNCHANGED <<cursor, macros, line_offset>>
                  ELSE /\ cursor' = d.cursor
                       /\ macros' = d.macros
                       /\ line_offset' = d.line_offset
                       /\ UNCHANGED <<pc, outcome>>
    /\ UNCHANGED <<source, build, lexer, comment, stripped, tokens, offset,
                   valvars, drivervars>>

\* Token::Word
WordStep ==
    /\ AtToken({"Word"})
    /\ \E g \in {get_macro(Current.token.s, Current, macros, line_offset,
                            build)} :
       LET token == Current
           stream == [i \in 1 .. Len(g.stream) |->
                         Shifted(g.stream[i], token.line, offset)]
           last == stream[Len(stream)]
       IN  IF g.r = "Panic"
             THEN Finish(Panicked) /\ UNCHANGED <<cursor, tokens, offset>>
           ELSE IF g.r = "Some"
             THEN /\ tokens' = tokens \o stream
                  /\ offset' = <<last.line, last.chars.end - token.chars.end>>
                  /\ cursor' = cursor + 1
                  /\ UNCHANGED <<pc, outcome>>
           ELSE /\ tokens' = Append(tokens, Shifted(token, token.line, offset))
                /\ cursor' = cursor + 1
                /\ UNCHANGED <<pc, outcome, offset>>
    /\ UNCHANGED <<source, build, lexer, comment, stripped, macros,
                   line_offset, valvars, drivervars>>

\* Every other token but End.
TokenStep ==
    /\ pc = "preprocessor"
    /\ cursor < Len(stripped)
    /\ Current.token.k \notin {"Preprocessor", "Word", "End"}
    /\ tokens' = Append(tokens, Shifted(Current, Current.line, offset))
    /\ cursor' = cursor + 1
    /\ UNCHANGED <<source, build, pc, lexer, comment, stripped, macros,
                   line_offset, offset, outcome, valvars, drivervars>>

\* Token::End: the last token; parse_preprocessor returns.
EndStep ==
    /\ AtToken({"End"})
    /\ tokens' = Append(tokens, Shifted(Current, Current.line, offset))
    /\ cursor' = cursor + 1
    /\ pc' = "fold"
    /\ UNCHANGED <<source, build, lexer, comment, stripped, macros,
                   line_offset, offset, outcome, valvars, drivervars>>

\* The fold of preprocess.
Emit ==
    /\ pc = "fold"
    /\ Finish(fold(tokens, 1, 0, 0, <<>>, build))
    /\ UNCHANGED <<source, build, lexer, comment, stripped, cursor, tokens,
                   macros, line_offset, offset, valvars, drivervars>>

NextPreprocess ==
    \/ StripToken
    \/ LineCommentTest
    \/ LineCommentSkip
    \/ DirectiveStep
    \/ WordStep
    \/ TokenStep
    \/ EndStep
    \/ Emit

SpecPreprocess == InitPreprocess /\ [][NextPreprocess]_vars

\* preprocess is one sequential call: whenever it can take a step it
\* eventually takes one.
SpecComments ==
    InitComments /\ [][NextPreprocess]_vars /\ WF_vars(NextPreprocess)

(***************************************************************************)
(* Properties.                                                             *)
(***************************************************************************)
IsPrefix(s, t) == Len(s) <= Len(t) /\ SubSeq(t, 1, Len(s)) = s
Last(s) == s[Len(s)]

ItemsOf(ph, arena) == [i \in 1 .. Len(arena) |-> <<ph, i - 1>>]

\* Every item of a module in the order of section 4.G: constants, types,
\* global variables, functions, entry points, each in arena order.
ItemOrder(m) ==
    ItemsOf("constants", m.constants) \o ItemsOf("types", m.types)
    \o ItemsOf("globals", m.global_variables)
    \o ItemsOf("functions", m.functions)
    \o ItemsOf("entry_points", m.entry_points)

\* The items a ValidationError can be about.
ErrorItems(error, m) ==
    CASE error.v = "Constant" -> {<<"constants", error.handle>>}
      [] error.v = "Type" -> {<<"types", error.handle>>}
      [] error.v = "GlobalVariable" -> {<<"globals", error.handle>>}
      [] error.v = "Function" -> {<<"functions", error.handle>>}
      [] error.v = "EntryPoint" ->
            {<<"entry_points", i>> : i \in
               {j \in Handles(m.entry_points) :
                  /\ At(m.entry_points, j).stage = error.stage
                  /\ At(m.entry_points, j).name = error.name}}

\* The first invalid item of each phase of a module put together from the
\* choices above.
KnownBad(m) ==
    (IF m.constants = ConstantsChoices.bad THEN {<<"constants", 1>>} ELSE {})
    \cup (IF m.constants = ConstantsChoices.first
          THEN {<<"constants", 0>>} ELSE {})
    \cup (IF m.types = TypesChoices.bad THEN {<<"types", 3>>} ELSE {})
    \cup (IF m.global_variables = GlobalsChoices.bad
          THEN {<<"globals", 1>>} ELSE {})
    \cup (IF m.global_variables = GlobalsChoices.collide
          THEN {<<"globals", 1>>} ELSE {})
    \cup (IF m.functions = FunctionsChoices.bad
          THEN {<<"functions", 1>>} ELSE {})
    \cup (IF m.entry_points = EntryPointsChoices.bad
          THEN {<<"entry_points", 1>>} ELSE {})
    \cup (IF m.entry_points = EntryPointsChoices.duplicate
          THEN {<<"entry_points", 1>>} ELSE {})
    \cup (IF m.entry_points = EntryPointsChoices.duplicate_bad
          THEN {<<"entry_points", 2>>} ELSE {})
    \cup (IF m.entry_points = EntryPointsChoices.bad_first
          THEN {<<"entry_points", 0>>} ELSE {})

\* The items up to and including the first invalid one.
UpToFirstBad(m) ==
    LET order == ItemOrder(m)
        k == CHOOSE i \in 1 .. Len(order) :
                /\ order[i] \in KnownBad(m)
                /\ \A j \in 1 .. (i - 1) : order[j] \notin KnownBad(m)
    IN SubSeq(order, 1, k)

AllFunctions(m) ==
    Range(m.functions) \cup {ep.function : ep \in Range(m.entry_points)}

Topological(m) ==
    \A f \in AllFunctions(m) : \A i \in Handles(f.expressions) :
        \A h \in Operands(At(f.expressions, i)) : h < i

\* C3: in an accepted module every operand handle of the expression at
\* index i is strictly less than i, for every expression variant.
C3_Topological ==
    (phase = "done" /\ result.r = "Ok") => Topological(module)

ExpressionClosed(e, f, m) ==
    /\ \A h \in Operands(e) : Has(f.expressions, h)
    /\ e.x = "Constant" => Has(m.constants, e.h)
    /\ e.x = "GlobalVariable" => Has(m.global_variables, e.h)
    /\ e.x = "LocalVariable" => Has(f.local_variables, e.h)
    /\ e.x = "Compose" => Has(m.types, e.ty)
    /\ e.x = "Call" => Has(m.functions, e.function)

ConstantClosed(c, m) ==
    c.c = "Composite" =>
        /\ Has(m.types, c.ty)
        /\ \A i \in 1 .. Len(c.components) : Has(m.constants, c.components[i])

HandlesClosed(m) ==
    /\ \A c \in Range(m.constants) : ConstantClosed(c, m)
    /\ \A f \in AllFunctions(m) : \A e \in Range(f.expressions) :
          ExpressionClosed(e, f, m)

C5_ErrorsAreValues == result.r # "Panic"

Key(ep) == <<ep.stage, ep.name>>

\* The entry point j repeats the stage and name of an earlier one.
Duplicate(m, j) ==
    \E i \in 0 .. (j - 1) :
        Key(At(m.entry_points, i)) = Key(At(m.entry_points, j))

Conflict(ep) ==
    Err([v |-> "EntryPoint", stage |-> ep.stage, name |-> ep.name,
         error |-> [e |-> "Conflict"]])

\* C6: when validate reaches an entry point whose stage and name both equal
\* those of an earlier one, it stops there with EntryPoint Conflict for that
\* stage and name, whatever else is wrong with the entry point; Conflict is
\* returned in no other case.
C6_Conflict ==
    /\ \A k \in 1 .. Len(examined) :
          (examined[k][1] = "entry_points" /\ Duplicate(module, examined[k][2]))
          => /\ k = Len(examined)
             /\ phase = "done"
             /\ result = Conflict(At(module.entry_points, examined[k][2]))
    /\ (phase = "done" /\ result.r = "Err" /\ result.e.v = "EntryPoint"
        /\ result.e.error.e = "Conflict")
          => /\ examined # <<>>
             /\ Last(examined)[1] = "entry_points"
             /\ Duplicate(module, Last(examined)[2])

\* The third entry point repeats the first and has an invalid function.
C6_Witness ==
    /\ phase = "done"
    /\ module.entry_points = EntryPointsChoices.duplicate_bad
    /\ result = Conflict(At(module.entry_points, 2))

\* The expression under test and the error of validate about it.
Tested(m) == At(At(m.functions, 1).expressions, Root)
IsTest(m) == Len(m.functions) = 2 /\ Len(m.functions[2].expressions) > Root

TestedError(error) ==
    Err([v |-> "Function", handle |-> 1,
         error |-> ExpressionFailure(Root, error)])

\* The type of the prelude expression h.
PreludeType(h) == IF h < 11 THEN BaseTypes[h + 1] ELSE Scalar("Float", 4)

StaticLimit(t) ==
    CASE t.t = "Vector" -> t.size
      [] t.t = "Matrix" -> t.columns
      [] t.t = "Struct" -> Len(t.members)
      [] t.t = "Array" -> At(BaseConstants, t.size).value

\* C7: AccessIndex of a Vector, Matrix, Struct or constant-sized Array is
\* accepted exactly when the index is below the size, the column count, the
\* member count or the length, and is IndexOutOfBounds(base, index)
\* otherwise; of a Scalar, Image or Sampler it is InvalidBaseType(base).
C7_AccessIndexBounds ==
    (/\ phase = "done"
     /\ IsTest(module)
     /\ Tested(module).x = "AccessIndex"
     /\ Tested(module).base \in (0 .. 10) \cup {13}) =>
        LET e == Tested(module)
            t == PreludeType(e.base)
        IN
        IF t.t \in {"Vector", "Matrix", "Struct"}
           \/ (t.t = "Array" /\ ~t.dynamic)
        THEN IF e.index.hi = 0 /\ e.index.lo < StaticLimit(t)
             THEN result.r = "Ok"
             ELSE result = TestedError(IndexOutOfBounds(e.base, e.index))
        ELSE IF t.t \in {"Scalar", "Image", "Sampler"}
        THEN result = TestedError([e |-> "InvalidBaseType", h |-> e.base])
        ELSE TRUE

\* vec3<f32> base with index 3.
C7_Witness ==
    /\ phase = "done"
    /\ IsTest(module)
    /\ Tested(module) = AccessIndex(5, U32(3))
    /\ result = TestedError(IndexOutOfBounds(5, U32(3)))

\* C8: AccessIndex of a dynamically sized Array or of a Pointer is accepted
\* for every 32-bit index.
C8_DynamicAnyIndex ==
    (/\ phase = "done"
     /\ IsTest(module)
     /\ Tested(module).x = "AccessIndex"
     /\ Tested(module).base \in {9, 11, 12}) => result.r = "Ok"

\* The operands in the order validate_expression resolves them before it
\* applies a type rule.
ResolveOrder(e) ==
    CASE e.x = "Binary" -> <<e.left, e.right>>
      [] e.x = "Select" -> <<e.accept, e.reject, e.condition>>
      [] e.x = "Unary" -> <<e.expr>>
      [] e.x = "Load" -> <<e.pointer>>
      [] e.x = "Relational" -> <<e.argument>>
      [] e.x = "ArrayLength" -> <<e.expr>>
      [] e.x \in {"Access", "AccessIndex"} -> <<e.base>>
      [] OTHER -> <<>>

\* C9: an operand that is the expression itself or a later one resolves to
\* ForwardDependency(operand); for Binary the left operand, then the right,
\* before any operand-type rule.
C9_ForwardDependency ==
    (/\ phase = "done"
     /\ IsTest(module)
     /\ \A h \in Operands(Tested(module)) :
           Has(module.functions[2].expressions, h)) =>
        LET order == ResolveOrder(Tested(module)) IN
        \A i \in 1 .. Len(order) :
            (order[i] >= Root /\ \A j \in 1 .. (i - 1) : order[j] < Root)
            => result = TestedError(ForwardDependency(order[i]))

\* The left operand is a pointer, which no Add takes; the right is later.
C9_Witness ==
    /\ phase = "done"
    /\ IsTest(module)
    /\ Tested(module) = Binary("Add", 12, Root + 1)
    /\ result = TestedError(ForwardDependency(Root + 1))

\* What a component adds to the count of a vector.
CountOfComponent(t) == IF t.t = "Vector" THEN t.size ELSE 1

RECURSIVE GivenToVector(_)
GivenToVector(components) ==
    IF components = <<>> THEN 0
    ELSE CountOfComponent(PreludeType(Head(components)))
         + GivenToVector(Tail(components))

ComposeGiven(t, components) ==
    IF t.t = "Vector" THEN GivenToVector(components) ELSE Len(components)

\* The components, as far as the composed type has places, have its types.
ComposeAcceptable(t, components) ==
    /\ \A i \in 1 .. Len(components) : components[i] < Root
    /\ CASE t.t = "Vector" ->
              \A i \in 1 .. Len(components) :
                 LET c == PreludeType(components[i]) IN
                 c.t \in {"Scalar", "Vector"} /\ c.kind = t.kind
                 /\ c.width = t.width
         [] t.t = "Matrix" ->
              \A i \in 1 .. Len(components) :
                 PreludeType(components[i]) = Vector(t.rows, "Float", t.width)
         [] t.t = "Array" ->
              \A i \in 1 .. Len(components) :
                 PreludeType(components[i]) = At(BaseTypes, t.base)
         [] t.t = "Struct" ->
              \A i \in 1 .. Min(Len(components), Len(t.members)) :
                 PreludeType(components[i]) = At(BaseTypes, t.members[i])

\* C10: Compose of a Vector, Matrix, constant-sized Array or Struct is
\* accepted only with exactly the count the type requires (the summed sizes
\* for a vector); acceptable components of another count give
\* InvalidComposeCount with the required count as expected and the supplied
\* count as given.
C10_ComposeCount ==
    (/\ phase = "done"
     /\ IsTest(module)
     /\ Tested(module).x = "Compose"
     /\ Tested(module).ty \in {4, 6, 7, 8, 10}) =>
        LET e == Tested(module)
            t == At(BaseTypes, e.ty)
            expected == StaticLimit(t)
            given == ComposeGiven(t, e.components)
            acceptable == ComposeAcceptable(t, e.components)
        IN
        /\ (acceptable /\ given # expected) =>
              result = TestedError([e |-> "InvalidComposeCount",
                                    expected |-> expected, given |-> given])
        /\ (acceptable /\ given = expected) => result.r = "Ok"
        /\ result.r = "Ok" => (acceptable /\ given = expected)

\* vec4<f32> from three f32.
C10_Witness ==
    /\ phase = "done"
    /\ IsTest(module)
    /\ Tested(module) = Compose(6, <<0, 0, 0>>)
    /\ result = TestedError([e |-> "InvalidComposeCount", expected |-> 4,
                             given |-> 3])

\* C11: validate_expression gives the stages {FRAGMENT} for Derivative, the
\* callee's available stages for Call and all stages for every other
\* variant it accepts, so the stages of a function are narrowed by a
\* Derivative and by a call of a function that has one.
C11_StageRequirement ==
    (phase = "done" /\ result.r = "Ok" /\ IsTest(module)) =>
        LET e == Tested(module)
            infos == result.v.functions
        IN
        /\ infos[1].available_stages = StagesFragment
        /\ infos[2].available_stages =
              CASE e.x = "Derivative" -> {"FRAGMENT"}
                [] e.x = "Call" /\ e.function = 0 -> {"FRAGMENT"}
                [] OTHER -> {"VERTEX", "FRAGMENT", "COMPUTE"}

\* A function that calls the function with the Derivative.
C11_Witness ==
    /\ phase = "done"
    /\ result.r = "Ok"
    /\ IsTest(module)
    /\ Tested(module) = Call(0)
    /\ result.v.functions[2].available_stages = {"FRAGMENT"}

Composites(m) == {h \in Handles(m.constants) : At(m.constants, h).c = "Composite"}

\* The checks of validate_constant on the type of the composite h pass.
ArrayChecksPass(m, h) ==
    LET c == At(m.constants, h) IN
    /\ Has(m.types, c.ty)
    /\ LET t == At(m.types, c.ty) IN
       t.t = "Array" => (~t.dynamic /\ t.size < h)

FirstNotEarlier(components, h) ==
    components[CHOOSE i \in 1 .. Len(components) :
                 /\ components[i] >= h
                 /\ \A j \in 1 .. (i - 1) : components[j] < h]

ConstantError(h, error) ==
    Err([v |-> "Constant", handle |-> h, error |-> error])

\* C12: when validate comes to a composite constant h whose type passes the
\* array checks and that has a component handle c >= h, it returns Constant
\* h with UnresolvedComponent(c) for the first such c; in an accepted
\* module every component handle is smaller than the composite's handle.
C12_ComponentsEarlier ==
    /\ \A h \in Composites(module) :
          LET c == At(module.constants, h) IN
          (/\ \E k \in 1 .. Len(examined) : examined[k] = <<"constants", h>>
           /\ ArrayChecksPass(module, h)
           /\ \E i \in 1 .. Len(c.components) : c.components[i] >= h)
          => result = ConstantError(h,
                        [e |-> "UnresolvedComponent",
                         h |-> FirstNotEarlier(c.components, h)])
    /\ (phase = "done" /\ result.r = "Ok") =>
          \A h \in Composites(module) :
             \A i \in 1 .. Len(At(module.constants, h).components) :
                At(module.constants, h).components[i] < h

\* The composite 1 of a struct with the components 3 (later) and 1 (itself).
C12_Witness ==
    /\ phase = "done"
    /\ At(module.constants, 1) = ConstComposite(4, <<3, 1>>)
    /\ result = ConstantError(1, [e |-> "UnresolvedComponent", h |-> 3])

RECURSIVE ReachTypes(_, _, _)
\* The types reached from ty through struct members and array elements,
\* ty included, in at most n steps.
ReachTypes(types, ty, n) ==
    IF ~Has(types, ty) THEN {}
    ELSE LET t == At(types, ty)
             inside == CASE t.t = "Struct" -> Range(t.members)
                         [] t.t = "Array" -> {t.base}
                         [] OTHER -> {}
         IN {ty} \cup (IF n = 0 THEN {}
                       ELSE UNION {ReachTypes(types, u, n - 1) : u \in inside})

\* C13: in an accepted module the size constant of every constant-sized
\* array type that a composite constant depends on, as its own type or
\* through struct members and array elements, is earlier than the constant.
C13_ArraySizeEarlier ==
    (phase = "done" /\ result.r = "Ok") =>
        \A h \in Composites(module) :
           \A a \in ReachTypes(module.types, At(module.constants, h).ty,
                               Len(module.types)) :
              LET t == At(module.types, a) IN
              (t.t = "Array" /\ ~t.dynamic) => t.size < h

TypeOfConstant(m, c) ==
    IF c.c = "Scalar" THEN Scalar(c.kind, c.width) ELSE At(m.types, c.ty)

\* The type the declared type t has at place i, if it has that place.
PlaceType(m, t, i) ==
    CASE t.t = "Vector" /\ i <= t.size ->
            [some |-> TRUE, ty |-> Scalar(t.kind, t.width)]
      [] t.t = "Array" -> [some |-> TRUE, ty |-> At(m.types, t.base)]
      [] t.t = "Struct" /\ i <= Len(t.members) ->
            [some |-> TRUE, ty |-> At(m.types, t.members[i])]
      [] OTHER -> [some |-> FALSE, ty |-> t]

ConstantAgrees(m, h) ==
    LET c == At(m.constants, h) IN
    IF c.c = "Scalar"
    THEN c.width = (IF c.kind = "Bool" THEN 1 ELSE 4)
    ELSE /\ Has(m.types, c.ty)
         /\ \A i \in 1 .. Len(c.components) :
               LET place == PlaceType(m, At(m.types, c.ty), i) IN
               /\ place.some
               /\ Has(m.constants, c.components[i])
               /\ TypeOfConstant(m, At(m.constants, c.components[i]))
                     = place.ty

\* C14: in an accepted module every scalar constant has a width supported
\* for its kind and every component of a composite constant has the type of
\* the element or member of the declared type at its place.
C14_ConstantAgrees ==
    (phase = "done" /\ result.r = "Ok") =>
        \A h \in Handles(module.constants) : ConstantAgrees(module, h)

\* The expression under test of an operand-rule module, the error of
\* validate about it and the types of its leaves.
OpsTested(m) == At(At(m.functions, 1).expressions, OpsRoot)
IsOps(m) == Len(m.functions) = 2 /\ Len(m.functions[2].expressions) > OpsRoot

OpsError(error) ==
    Err([v |-> "Function", handle |-> 1,
         error |-> ExpressionFailure(OpsRoot, error)])

OpsType(h) ==
    IF h < Len(OpsTypes) THEN OpsTypes[h + 1]
    ELSE IF h = Len(OpsTypes) THEN Pointer(4, "Private")
    ELSE ValuePointer(0, "Float", 4, "Private")

OpsDone == phase = "done" /\ IsOps(module)

SizedVariant(t) ==
    \/ t.t \in {"Scalar", "Vector", "Matrix", "Pointer", "ValuePointer",
                 "Struct"}
    \/ t.t = "Array" /\ ~t.dynamic

UnsizedVariant(t) ==
    \/ t.t \in {"Image", "Sampler"}
    \/ t.t = "Array" /\ t.dynamic

\* C15: is_sized is true exactly for Scalar, Vector, Matrix, constant-sized
\* Array, Pointer, ValuePointer and Struct and false exactly for dynamic
\* Array, Image and Sampler, whatever the members or the element type are;
\* so comparing a value for equality with itself is accepted exactly for
\* the first group.
C15_IsSized ==
    IsOps(module) =>
        /\ \A h \in OpsLeaves :
              /\ is_sized(OpsType(h)) <=> SizedVariant(OpsType(h))
              /\ ~is_sized(OpsType(h)) <=> UnsizedVariant(OpsType(h))
        /\ \A h \in OpsLeaves :
              (phase = "done" /\ OpsTested(module) = Binary("Equal", h, h))
                 => (result.r = "Ok" <=> SizedVariant(OpsType(h)))

\* A struct with a dynamically sized member compared with itself is accepted.
C15_Witness ==
    /\ OpsDone
    /\ OpsTested(module) = Binary("Equal", 12, 12)
    /\ At(module.types, At(module.types, 12).members[2]).dynamic
    /\ result.r = "Ok"

\* C16: Unary Negate is accepted exactly for an operand of scalar kind
\* Sint, Uint or Float and Unary Not exactly for Sint, Uint or Bool; every
\* other operand yields InvalidUnaryOperandType(op, operand).
C16_UnaryRule ==
    \A op \in {"Negate", "Not"}, h \in OpsLeaves :
       (OpsDone /\ OpsTested(module) = Unary(op, h)) =>
          LET kind == scalar_kind(OpsType(h))
              good == IF op = "Negate" THEN kind \in {"Sint", "Uint", "Float"}
                      ELSE kind \in {"Sint", "Uint", "Bool"}
          IN IF good THEN result.r = "Ok"
             ELSE result = OpsError([e |-> "InvalidUnaryOperandType",
                                     op |-> op, h |-> h])

NumericShape(t) ==
    t.t \in {"Scalar", "Vector"} /\ t.kind \in {"Sint", "Uint", "Float"}

BinaryOutcome(op, l, r, good) ==
    IF good THEN result.r = "Ok"
    ELSE result = OpsError(InvalidBinaryOperandTypes(op, l, r))

\* C17: Add, Subtract, Divide and Modulo are accepted exactly when the left
\* operand is a Scalar or Vector of kind Sint, Uint or Float and the right
\* operand has the identical type; otherwise the error is
\* InvalidBinaryOperandTypes(op, left, right).
C17_ArithmeticRule ==
    \A op \in {"Add", "Subtract", "Divide", "Modulo"},
       l \in OpsLeaves, r \in OpsLeaves :
       (OpsDone /\ OpsTested(module) = Binary(op, l, r)) =>
          BinaryOutcome(op, l, r,
                        NumericShape(OpsType(l)) /\ OpsType(r) = OpsType(l))

\* A vector and a scalar of the same kind are rejected.
C17_Witness ==
    /\ OpsDone
    /\ OpsTested(module) = Binary("Modulo", 4, 0)
    /\ result = OpsError(InvalidBinaryOperandTypes("Modulo", 4, 0))

\* C18: Equal and NotEqual are accepted exactly when the left type is sized
\* and both operand types are identical; Less, LessEqual, Greater and
\* GreaterEqual exactly when the left operand is a Scalar or Vector of kind
\* Sint, Uint or Float and the right type is identical.
C18_ComparisonRule ==
    \A op \in CompareOps, l \in OpsLeaves, r \in OpsLeaves :
       (OpsDone /\ OpsTested(module) = Binary(op, l, r)) =>
          /\ BinaryOutcome(op, l, r,
                IF op \in {"Equal", "NotEqual"}
                THEN SizedVariant(OpsType(l)) /\ OpsType(r) = OpsType(l)
                ELSE NumericShape(OpsType(l)) /\ OpsType(r) = OpsType(l))
          /\ result.r = "Ok" =>
                SizedVariant(OpsType(l)) /\ OpsType(l) = OpsType(r)

\* A dynamically sized array is not equal to itself.
C18_Witness ==
    /\ OpsDone
    /\ OpsTested(module) = Binary("Equal", 11, 11)
    /\ result = OpsError(InvalidBinaryOperandTypes("Equal", 11, 11))

ShapeSize(t) == IF t.t = "Vector" THEN t.size ELSE 0

\* C19: ShiftLeft and ShiftRight are accepted exactly when the base is a
\* Scalar or Vector of kind Sint or Uint, the shift amount a Scalar or
\* Vector of kind Uint, and both are scalars or vectors of equal size.
C19_ShiftRule ==
    \A op \in {"ShiftLeft", "ShiftRight"}, l \in OpsLeaves, r \in OpsLeaves :
       (OpsDone /\ OpsTested(module) = Binary(op, l, r)) =>
          LET base == OpsType(l)
              amount == OpsType(r)
          IN BinaryOutcome(op, l, r,
                /\ base.t \in {"Scalar", "Vector"}
                /\ base.kind \in {"Sint", "Uint"}
                /\ amount.t \in {"Scalar", "Vector"}
                /\ amount.kind = "Uint"
                /\ base.t = amount.t
                /\ ShapeSize(base) = ShapeSize(amount))

\* A signed vector shifted by an unsigned vector of the same size.
C19_Witness ==
    /\ OpsDone
    /\ OpsTested(module) = Binary("ShiftRight", 5, 6)
    /\ result.r = "Ok"

\* C20: Select is accepted exactly when accept and reject have identical
\* types and either the condition is a Bool scalar and the accept type is
\* sized, or the condition is a Bool vector and accept is a vector of the
\* same size; otherwise the error is InvalidSelectTypes.
C20_SelectRule ==
    \A c \in OpsLeaves, a \in OpsLeaves, r \in OpsLeaves :
       (OpsDone /\ OpsTested(module) = Select(c, a, r)) =>
          LET condition == OpsType(c)
              accept == OpsType(a)
              good ==
                /\ accept = OpsType(r)
                /\ \/ /\ condition.t = "Scalar"
                      /\ condition.kind = "Bool"
                      /\ SizedVariant(accept)
                   \/ /\ condition.t = "Vector"
                      /\ condition.kind = "Bool"
                      /\ accept.t = "Vector"
                      /\ accept.size = condition.size
          IN IF good THEN result.r = "Ok"
             ELSE result = OpsError([e |-> "InvalidSelectTypes"])

\* A condition of three booleans with vectors of two components.
C20_Witness ==
    /\ OpsDone
    /\ OpsTested(module) = Select(9, 4, 4)
    /\ result = OpsError([e |-> "InvalidSelectTypes"])

\* The expression under test of a Load or ImageQuery module and the error
\* of validate about it.
MemTested(m) == At(At(m.functions, 1).expressions, MemRoot)

IsMem(m) ==
    /\ Len(m.functions) = 2
    /\ Len(m.functions[2].expressions) > MemRoot
    /\ m.types = MemTypes

MemError(error) ==
    Err([v |-> "Function", handle |-> 1,
         error |-> ExpressionFailure(MemRoot, error)])

MemDone == phase = "done" /\ IsMem(module)

\* The query is compatible with the image type t.
QueryCompatible(query, t) ==
    LET levels == (t.class = "Sampled" /\ ~t.multi) \/ t.class = "Depth"
        flat == (t.class = "Sampled" /\ t.multi) \/ t.class = "Storage"
    IN CASE query = "NumLayers" -> t.arrayed
         [] query \in {"NumLevels", "SizeLevel"} -> levels
         [] query \in {"NumSamples", "Size"} -> flat

\* C21: an ImageQuery whose image operand is not a GlobalVariable
\* expression yields ExpectedGlobalVariable; one whose variable is not of
\* image type yields ExpectedImageType; otherwise it is accepted exactly
\* when the query is compatible with the image class, arrayed or not, and
\* yields InvalidImageClass(class) when it is not.
C21_ImageQueryRule ==
    \A i \in MemLeaves, q \in ImageQueries :
       (MemDone /\ MemTested(module) = ImageQuery(i, q, 18)) =>
          IF i >= Len(MemGlobals)
          THEN result = MemError([e |-> "ExpectedGlobalVariable"])
          ELSE LET ty == MemGlobals[i + 1].ty
                   t == MemTypes[ty + 1]
               IN IF t.t # "Image"
                  THEN result = MemError([e |-> "ExpectedImageType",
                                          h |-> ty])
                  ELSE IF QueryCompatible(q, t) THEN result.r = "Ok"
                  ELSE result = MemError([e |-> "InvalidImageClass",
                                          class |-> t.class])

\* The levels of a storage image are asked for.
C21_Witness ==
    /\ MemDone
    /\ MemTested(module) = ImageQuery(3, "NumLevels", 18)
    /\ result = MemError([e |-> "InvalidImageClass", class |-> "Storage"])

\* The type a leaf of the Load and ImageQuery modules resolves to.
MemType(h) ==
    IF h < Len(MemGlobals)
    THEN Pointer(MemGlobals[h + 1].ty, MemGlobals[h + 1].class)
    ELSE IF h < Len(MemGlobals) + Len(MemLocals)
    THEN Pointer(MemLocals[h - Len(MemGlobals) + 1], "Function")
    ELSE CASE h = 17 -> MemTypes[3]
           [] h = 18 -> MemTypes[1]
           [] h = 19 -> ValuePointer(0, "Float", 4, "Private")
           [] h = 20 -> Pointer(10, "Function")

\* C22: Load is accepted exactly when the pointer operand is a
\* ValuePointer or a Pointer whose base type has the validated flags SIZED
\* and DATA; a pointer to an image, a sampler, a dynamically sized array or
\* a pointer, and an operand that is no pointer, yield
\* InvalidPointerType(pointer).
C22_LoadRule ==
    \A h \in MemLeaves :
       (MemDone /\ MemTested(module) = Load(h)) =>
          LET t == MemType(h)
              base == MemTypes[t.base + 1]
              good == \/ t.t = "ValuePointer"
                      \/ /\ t.t = "Pointer"
                         /\ {"SIZED", "DATA"}
                               \subseteq At(validator.types, t.base).flags
              bad == \/ t.t \notin {"Pointer", "ValuePointer"}
                     \/ /\ t.t = "Pointer"
                        /\ \/ base.t \in {"Image", "Sampler", "Pointer"}
                           \/ base.t = "Array" /\ base.dynamic
          IN /\ IF good THEN result.r = "Ok"
                ELSE result = MemError([e |-> "InvalidPointerType",
                                        h |-> h])
             /\ bad => ~good

\* A pointer to a pointer is loaded from.
C22_Witness ==
    /\ MemDone
    /\ MemTested(module) = Load(15)
    /\ MemType(15) = Pointer(12, "Function")
    /\ result = MemError([e |-> "InvalidPointerType", h |-> 15])

\* The type of a leaf of the Multiply modules.
MulType(h) ==
    IF h < Len(MulTypes) THEN MulTypes[h + 1]
    ELSE IF h = Len(MulTypes) THEN Pointer(4, "Private")
    ELSE ValuePointer(0, "Float", 4, "Private")

IsMul(m) == IsOps(m) /\ m.types = MulTypes

Shaped(t) == t.t \in {"Scalar", "Vector", "Matrix"}

KindOfShape(t) == IF t.t = "Matrix" THEN "Float" ELSE t.kind

\* The pairings of shapes that Multiply takes.
MultiplyShapes(l, r) ==
    \/ /\ <<l.t, r.t>> \in {<<"Scalar", "Scalar">>, <<"Vector", "Scalar">>,
                             <<"Scalar", "Vector">>}
       /\ l.kind = r.kind
    \/ l.t = "Scalar" /\ l.kind = "Float" /\ r.t = "Matrix"
    \/ l.t = "Matrix" /\ r.t = "Scalar" /\ r.kind = "Float"
    \/ l.t = "Vector" /\ r.t = "Vector" /\ l.kind = r.kind /\ l.size = r.size
    \/ l.t = "Matrix" /\ r.t = "Vector" /\ r.kind = "Float"
          /\ l.columns = r.size
    \/ l.t = "Vector" /\ l.kind = "Float" /\ r.t = "Matrix"
          /\ l.size = r.rows
    \/ l.t = "Matrix" /\ r.t = "Matrix" /\ l.columns = r.rows

\* C27: Multiply is accepted exactly when the left operand's scalar kind is
\* Sint, Uint or Float, both operands have the same component width and
\* the shapes are one of the enumerated pairings; every other pairing
\* yields InvalidBinaryOperandTypes(Multiply, left, right).
C27_MultiplyRule ==
    \A l \in OpsLeaves, r \in OpsLeaves :
       (phase = "done" /\ IsMul(module)
        /\ OpsTested(module) = Binary("Multiply", l, r)) =>
          LET lt == MulType(l)
              rt == MulType(r)
          IN BinaryOutcome("Multiply", l, r,
                /\ Shaped(lt) /\ Shaped(rt)
                /\ KindOfShape(lt) \in {"Sint", "Uint", "Float"}
                /\ lt.width = rt.width
                /\ MultiplyShapes(lt, rt))

\* A 2x3 matrix times a 2x3 matrix: two columns against three rows.
C27_Witness ==
    /\ phase = "done" /\ IsMul(module)
    /\ OpsTested(module) = Binary("Multiply", 11, 11)
    /\ result = OpsError(InvalidBinaryOperandTypes("Multiply", 11, 11))

RECURSIVE FunctionInfos(_, _, _)
\* The FunctionInfo of each of the first n functions of m, each computed
\* from the infos of the functions before it.
FunctionInfos(self, m, n) ==
    IF n = 0 THEN <<>>
    ELSE Bind(FunctionInfos(self, m, n - 1),
              LAMBDA earlier :
                Append(earlier,
                       validate_function(self, m.functions[n], m,
                                         [functions |-> earlier,
                                          entry_points |-> <<>>]).v))

EntryPointInfos(self, m, functions) ==
    [i \in 1 .. Len(m.entry_points) |->
        validate_entry_point(self, m.entry_points[i], m,
                             [functions |-> functions,
                              entry_points |-> <<>>]).v]

\* C28: when validate returns Ok(info), info holds the FunctionInfo of
\* every function in arena order and of every entry point in declaration
\* order; while function h is validated the infos at hand are exactly those
\* of the functions before h; Err carries no ModuleInfo.
C28_InfoAligned ==
    /\ phase = "functions" =>
          mod_info.functions = FunctionInfos(validator, module, idx)
    /\ (phase = "done" /\ result.r = "Ok") =>
          LET functions ==
                FunctionInfos(validator, module, Len(module.functions))
          IN /\ Len(result.v.functions) = Len(module.functions)
             /\ Len(result.v.entry_points) = Len(module.entry_points)
             /\ result.v.functions = functions
             /\ result.v.entry_points
                   = EntryPointInfos(validator, module, functions)
    /\ (phase = "done" /\ result.r = "Err") => DOMAIN result = {"r", "e"}

\* Two functions and two entry points with different infos are accepted.
C28_Witness ==
    /\ phase = "done"
    /\ result.r = "Ok"
    /\ module.functions = <<DerivativeFunction, CallerFunction>>
    /\ Len(module.entry_points) = 2
    /\ result.v.functions[1] # result.v.functions[2]
    /\ result.v.entry_points[1] # result.v.entry_points[2]

(***************************************************************************)
(* Properties of the preprocessor.                                         *)
(***************************************************************************)
\* C24: preprocess terminates on every finite input: every call runs to
\* completion, returning Ok or Err (or failing), also when a line comment
\* stands on a line that is not the last.
C24_Terminates == <>(pc = "done")

\* C25: preprocess reports every rejected input through its own error
\* type: it returns Ok or Err(Error{kind}) and never panics, whatever the
\* input: #error, the conditional directives and the use of a macro with an
\* empty replacement list included.
C25_NeverPanics == outcome.r # "Panic"

\* n + k for a small natural k.
UsizePlus(n, k) ==
    LET a1 == n[1] + k
        a2 == n[2] + a1 \div LimbBase
        a3 == n[3] + a2 \div LimbBase
        a4 == n[4] + a3 \div LimbBase
    IN  <<a1 % LimbBase, a2 % LimbBase, a3 % LimbBase, a4 % LimbBase>>

\* The #line directives among the first c tokens: the positions of "#".
LineDirectives(c) ==
    {i \in 1 .. c - 3 :
        /\ stripped[i].token.k = "Preprocessor"
        /\ stripped[i + 1].token = Word(Spelling["line"])
        /\ stripped[i + 1].line = stripped[i].line
        /\ stripped[i + 2].token.k = "Integral"
        /\ stripped[i + 2].line = stripped[i].line}

\* (line index) + 1 + line_offset for a token at the given line, where
\* line_offset is N - L for the last #line N before it and 0 without one.
ExpectedLine(line, c) ==
    IF LineDirectives(c) = {} THEN Usize(line + 1)
    ELSE LET i == CHOOSE d \in LineDirectives(c) :
                      \A e \in LineDirectives(c) : e <= d
         IN  UsizePlus(stripped[i + 2].token.n,
                       line + 1 - stripped[i].line)

\* The round of parse_preprocessor's loop is at a use of the named word.
AtWord(name) ==
    AtToken({"Word"}) /\ Current.token.s = Spelling[name]

\* The round appends exactly one Integral token of value n.
ExpandsTo(n) ==
    /\ Len(tokens') = Len(tokens) + 1
    /\ tokens'[Len(tokens')].token = Integral(n)

\* C26: __LINE__ expands to the one integer token (line index of the
\* token) + 1 + line_offset, line_offset being 0 at first and N - L after
\* a #line N <word> directive at line L; __FILE__ expands to 0 and
\* __VERSION__ to 460.
C26_BuiltinMacros ==
    [][/\ AtWord("__LINE__") => ExpandsTo(ExpectedLine(Current.line, cursor))
       /\ AtWord("__FILE__") => ExpandsTo(Usize(0))
       /\ AtWord("__VERSION__") => ExpandsTo(Usize(460))]_vars

\* The values of a vector of tokens, without their positions.
Values(ts) == [i \in 1 .. Len(ts) |-> ts[i].token]

\* The first position after i whose token is on another line.
RECURSIVE EndOfLine(_, _, _)
EndOfLine(toks, i, line) ==
    IF i > Len(toks) \/ toks[i].line # line THEN i
    ELSE EndOfLine(toks, i + 1, line)

\* A replacement list as it is emitted: as written, or, when rescan is
\* set, with the words in it that name a macro defined at the place of use
\* replaced in turn (a macro is not replaced inside its own expansion).
RECURSIVE Replacement(_, _, _, _)
Replacement(body, defs, rescan, inside) ==
    IF body = <<>> THEN <<>>
    ELSE (IF /\ rescan
             /\ body[1].k = "Word"
             /\ body[1].s \in DOMAIN defs \ inside
            THEN Replacement(defs[body[1].s], defs, rescan,
                             inside \cup {body[1].s})
          ELSE <<body[1]>>)
         \o Replacement(Tail(body), defs, rescan, inside)

\* What the claim says is emitted for the tokens from position i on: defs
\* maps each name to the replacement list of its most recent #define that
\* no #undef has followed.
RECURSIVE SourceOrder(_, _, _, _)
SourceOrder(toks, i, defs, rescan) ==
    IF i > Len(toks) THEN <<>>
    ELSE IF toks[i].token.k = "Preprocessor"
      THEN LET j == EndOfLine(toks, i + 1, toks[i].line)
               named == j > i + 2 /\ toks[i + 2].token.k = "Word"
               name == toks[i + 2].token.s
           IN  IF named /\ toks[i + 1].token = Word(Spelling["define"])
                 THEN SourceOrder(toks, j,
                                  (name :> Values(SubSeq(toks, i + 3, j - 1)))
                                      @@ defs,
                                  rescan)
               ELSE IF named /\ toks[i + 1].token = Word(Spelling["undef"])
                 THEN SourceOrder(toks, j,
                                  [w \in DOMAIN defs \ {name} |-> defs[w]],
                                  rescan)
               ELSE SourceOrder(toks, j, defs, rescan)
    ELSE (IF toks[i].token.k = "Word" /\ toks[i].token.s \in DOMAIN defs
            THEN Replacement(defs[toks[i].token.s], defs, rescan,
                             {toks[i].token.s})
          ELSE <<toks[i].token>>)
         \o SourceOrder(toks, i + 1, defs, rescan)

\* No word of the input names a predefined macro.
OnlyUserMacros ==
    \A i \in 1 .. Len(stripped) :
        stripped[i].token.k = "Word" =>
            stripped[i].token.s \notin
                {Spelling[w] : w \in {"__LINE__", "__FILE__", "__VERSION__",
                                       "GL_SPIRV", "VULKAN",
                                       "GL_core_profile"}}

\* C29: macro definitions take effect in source order: when
\* parse_preprocessor returns its tokens, every word outside a directive
\* has been replaced by the token list of the most recent preceding #define
\* of it that no #undef has followed (as written, or rescanned for the
\* macros defined at the place of use), and every other word is unchanged.
C29_SourceOrder ==
    (pc = "fold" /\ OnlyUserMacros) =>
        Values(tokens) \in {SourceOrder(stripped, 1, <<>>, rescan) :
                               rescan \in BOOLEAN}

\* A text without the white space at its end.
RECURSIVE TrimEnd(_)
TrimEnd(text) ==
    IF text # <<>> /\ text[Len(text)] \in Whitespace \cup {"\n"}
      THEN TrimEnd(Take(text, Len(text) - 1))
    ELSE text

\* The lines of a text, each without the white space at its end, up to
\* the last line that is not blank.
RECURSIVE TrimmedLines(_, _)
TrimmedLines(text, line) ==
    IF text = <<>> THEN <<TrimEnd(line)>>
    ELSE IF text[1] = "\n"
      THEN <<TrimEnd(line)>> \o TrimmedLines(Tail(text), <<>>)
    ELSE TrimmedLines(Tail(text), Append(line, text[1]))

RECURSIVE WithoutBlankEnd(_)
WithoutBlankEnd(ls) ==
    IF ls # <<>> /\ ls[Len(ls)] = <<>>
      THEN WithoutBlankEnd(Take(ls, Len(ls) - 1))
    ELSE ls

UpToTrailingWhitespace(text) == WithoutBlankEnd(TrimmedLines(text, <<>>))

\* The input has no comment, no directive, no line continuation and no
\* word that names a macro.
PlainInput ==
    /\ \A l \in 1 .. Len(source) : \A i \in 1 .. Len(source[l]) :
          /\ source[l][i] \notin {"#", "\\"}
          /\ source[l][i] \in {"/", "*"} =>
                CharAt(source[l], i + 1) \notin {"/", "*"}
    /\ OnlyUserMacros

\* C30: token text and position are preserved: for an input without
\* comments, directives and macro names preprocess returns Ok with the
\* text of the input, every token on its line, at its column and in its
\* spelling, up to trailing white space.
C30_TextPreserved ==
    (pc = "done" /\ PlainInput) =>
        /\ outcome.r = "Ok"
        /\ UpToTrailingWhitespace(outcome.text) =
               WithoutBlankEnd([l \in 1 .. Len(source) |->
                                   TrimEnd(source[l])])
====
